---------------------------- MODULE Spec2Model ----------------------------
(***************************************************************************)
(* Model of the FSL installer (fslinstaller.py, version 1.9.0):            *)
(*   - the Process runner (child process, two reader threads, queues)      *)
(*   - privilege escalation (Process.popen / sudo_popen, admin password)   *)
(*   - the install orchestrator (main, self_update, handle_error)          *)
(* Three specifications share the module: SpecProcess, SpecSudo and Spec.  *)
(***************************************************************************)
EXTENDS Integers, Sequences, FiniteSets, TLC

(* Python's None and a present value, as an option type. *)
None == <<>>
Some(x) == <<x>>

Streams == {"stdout", "stderr"}

(***************************************************************************)
(* Bounds of the model.                                                    *)
(***************************************************************************)
MaxLines == 2
PipeCap == 1

VARIABLES
    (* ---- Process runner --------------------------------------------- *)
    toWrite,        \* per stream: lines the child has yet to write
    written,        \* per stream: number of lines the child has written
    pipe,           \* per stream: OS pipe buffer between child and reader
    streamOpen,     \* per stream: the child still holds the write end
    childState,     \* "running" | "exited"
    exitStatus,     \* exit status the child exits with
    popenReturncode,\* subprocess.Popen.returncode (None until poll/wait)
    threadAlive,    \* per stream: the forward_stream thread is alive
    queue,          \* per stream: Process.stdoutq / Process.stderrq
    observed,       \* last value the returncode property gave a caller
    slowDrain,      \* the child's exit was collected while a stream was undrained
    (* ---- privilege escalation ---------------------------------------- *)
    uid,            \* os.getuid()
    needAdmin,      \* Context.__need_admin (None until resolved)
    adminPassword,  \* Context.__admin_password (None until cached)
    promptLog,      \* passwords entered at the getpass prompts, in order
    credReads,      \* number of reads of ctx.admin_password by Process.popen
    disk,           \* temporary files that exist on disk
    nextFile,       \* names handed out by tempfile.NamedTemporaryFile
    procs,          \* the commands launched so far, in order
    sudoPc,         \* "start" | "ready" | "failed"
    (* ---- install orchestrator ---------------------------------------- *)
    pc,             \* position of main
    args,           \* the parsed command line of the running process
    origArgs,       \* the command line the user gave
    image,          \* "current" | "new": which installer file is running
    relaunches,     \* number of os.execv re-launches so far
    suCall,         \* inputs of the call of self_update (None: not called)
    downloads,      \* what this invocation has downloaded
    warnings,       \* warnings printed
    dest,           \* contents of the destination directory
    scratch,        \* contents of old_destdir<i> in the scratch directory
    oldDestdir,     \* ctx.old_destdir (None, or the index i)
    failedStep,     \* the step that raised (None: none did)
    configured,     \* shell / MATLAB configuration steps have run
    exitCode,       \* exit status of the process (None while it runs)
    mismatched,     \* downloaded files whose SHA-256 differs from the manifest's
    printed,        \* messages of handle_error and --listversions, in order
    markerWritten,  \* this run has copied fslversion into the destination
    (* ---- Process.monitor_progress ------------------------------------ *)
    cmds,           \* number of commands in the list given to monitor_progress
    cmdIndex,       \* position in "for cmd in cmds" (0: before the first)
    monPc,          \* position of the monitoring loop
    rcLog,          \* return codes of the commands that finished, in order
    total,          \* the expected number of output lines (None: not given)
    nlines,         \* the line counter (None when no total is given)
    linesBefore,    \* stdout lines written by the commands before this one
    (* ---- Context ------------------------------------------------------ *)
    ctxArgs,        \* Context.args: the parsed command line
    ctxPlatform,    \* Context.__platform (None until resolved)
    ctxManifest,    \* Context.__manifest (None until resolved)
    ctxBuild,       \* Context.__build (None until resolved)
    ctxDestdir,     \* Context.__destdir (None until resolved)
    resolved,       \* the settings resolved so far, in order of resolution
    lastRead,       \* the last read of a setting and the value it returned
    ctxPc,          \* position of main with respect to the Context
    (* ---- pure functions ----------------------------------------------- *)
    fnIn,           \* the arguments of the function under study
    fnOut           \* its result (None until it has been applied), or the
                    \* state of the call of check_output / check_call

procVars == <<toWrite, written, pipe, streamOpen, childState, exitStatus,
              popenReturncode, threadAlive, queue, observed, slowDrain>>

sudoVars == <<uid, needAdmin, adminPassword, promptLog, credReads, disk,
              nextFile, procs, sudoPc>>

mainVars == <<pc, args, origArgs, image, relaunches, suCall, downloads,
              warnings, dest, scratch, oldDestdir, failedStep, configured,
              exitCode, mismatched, printed, markerWritten>>

monVars == <<cmds, cmdIndex, monPc, rcLog, total, nlines, linesBefore>>

ctxVars == <<ctxArgs, ctxPlatform, ctxManifest, ctxBuild, ctxDestdir,
             resolved, lastRead, ctxPc>>

fnVars == <<fnIn, fnOut>>

vars == <<procVars, sudoVars, mainVars, monVars, ctxVars, fnVars>>

(***************************************************************************)
(* Process runner                                                          *)
(***************************************************************************)

(* Process.__init__: the child is started by Process.popen and both reader *)
(* threads are started before the constructor returns.  The child's        *)
(* behaviour (how many lines on each stream, its exit status) is input.    *)
ProcessInit ==
    /\ toWrite \in [Streams -> 0..MaxLines]
    /\ written = [s \in Streams |-> 0]
    /\ pipe = [s \in Streams |-> <<>>]
    /\ streamOpen = [s \in Streams |-> TRUE]
    /\ childState = "running"
    /\ exitStatus \in {0, 1}
    /\ popenReturncode = None
    /\ threadAlive = [s \in Streams |-> TRUE]
    /\ queue = [s \in Streams |-> <<>>]
    /\ observed = None
    /\ slowDrain = FALSE

(* The child writes its next line to one of its streams; it blocks while   *)
(* the pipe buffer is full.                                                *)
ChildWrite(s) ==
    /\ childState = "running"
    /\ streamOpen[s]
    /\ toWrite[s] > 0
    /\ Len(pipe[s]) < PipeCap
    /\ pipe' = [pipe EXCEPT ![s] = Append(@, written[s] + 1)]
    /\ written' = [written EXCEPT ![s] = @ + 1]
    /\ toWrite' = [toWrite EXCEPT ![s] = @ - 1]
    /\ UNCHANGED <<streamOpen, childState, exitStatus, popenReturncode,
                   threadAlive, queue, observed, slowDrain,
                   sudoVars, mainVars,
                   monVars, ctxVars, fnVars>>

(* The child closes one of its streams before it exits. *)
ChildClose(s) ==
    /\ childState = "running"
    /\ streamOpen[s]
    /\ toWrite[s] = 0
    /\ streamOpen' = [streamOpen EXCEPT ![s] = FALSE]
    /\ UNCHANGED <<toWrite, written, pipe, childState, exitStatus,
                   popenReturncode, threadAlive, queue, observed, slowDrain,
                   sudoVars, mainVars,
                   monVars, ctxVars, fnVars>>

(* The child exits: the write ends of its pipes are closed, whatever it    *)
(* wrote stays buffered in the pipes until it is read.                     *)
ChildExit ==
    /\ childState = "running"
    /\ \A s \in Streams : toWrite[s] = 0 \/ ~streamOpen[s]
    /\ childState' = "exited"
    /\ streamOpen' = [s \in Streams |-> FALSE]
    /\ UNCHANGED <<toWrite, written, pipe, exitStatus, popenReturncode,
                   threadAlive, queue, observed, slowDrain,
                   sudoVars, mainVars,
                   monVars, ctxVars, fnVars>>

(* forward_stream putting on a queue that holds one line: the put blocks   *)
(* while the queue is full.                                                *)
forward_stream_bounded(s) ==
    /\ threadAlive[s]
    /\ \/ /\ pipe[s] # <<>>
          /\ Len(queue[s]) < 1
          /\ queue' = [queue EXCEPT ![s] = Append(@, Head(pipe[s]))]
          /\ pipe' = [pipe EXCEPT ![s] = Tail(@)]
          /\ UNCHANGED threadAlive
       \/ /\ pipe[s] = <<>>
          /\ ~streamOpen[s]
          /\ threadAlive' = [threadAlive EXCEPT ![s] = FALSE]
          /\ UNCHANGED <<pipe, queue>>
    /\ UNCHANGED <<toWrite, written, streamOpen, childState, exitStatus,
                   popenReturncode, observed, slowDrain,
                   sudoVars, mainVars,
                   monVars, ctxVars, fnVars>>

(* One iteration of the loop of Process.forward_stream: readline blocks    *)
(* until a line or end-of-stream; a line is put on the queue, the empty    *)
(* string (end-of-stream) ends the thread.                                 *)
forward_stream(s) ==
    /\ threadAlive[s]
    /\ \/ /\ pipe[s] # <<>>
          /\ queue' = [queue EXCEPT ![s] = Append(@, Head(pipe[s]))]
          /\ pipe' = [pipe EXCEPT ![s] = Tail(@)]
          /\ UNCHANGED threadAlive
       \/ /\ pipe[s] = <<>>
          /\ ~streamOpen[s]
          /\ threadAlive' = [threadAlive EXCEPT ![s] = FALSE]
          /\ UNCHANGED <<pipe, queue>>
    /\ UNCHANGED <<toWrite, written, streamOpen, childState, exitStatus,
                   popenReturncode, observed, slowDrain,
                   sudoVars, mainVars,
                   monVars, ctxVars, fnVars>>

(* subprocess.Popen.poll(), as called by monitor_progress and wait: the    *)
(* return code is collected once the child has exited.                     *)
Poll ==
    /\ popenReturncode = None
    /\ childState = "exited"
    /\ popenReturncode' = Some(exitStatus)
    /\ slowDrain' = \E s \in Streams : pipe[s] # <<>>
    /\ UNCHANGED <<toWrite, written, pipe, streamOpen, childState,
                   exitStatus, threadAlive, queue, observed,
                   sudoVars, mainVars,
                   monVars, ctxVars, fnVars>>

(* The Process.returncode property with the stderr reader forgotten. *)
returncodeIgnoringStderr ==
    IF popenReturncode = None THEN None
    ELSE IF threadAlive["stdout"] THEN None
    ELSE popenReturncode

(* The Process.returncode property. *)
returncode ==
    IF popenReturncode = None THEN None
    ELSE IF threadAlive["stdout"] THEN None
    ELSE IF threadAlive["stderr"] THEN None
    ELSE popenReturncode

(* A caller reads the returncode property. *)
GetReturncode ==
    /\ observed' = returncode
    /\ UNCHANGED <<toWrite, written, pipe, streamOpen, childState,
                   exitStatus, popenReturncode, threadAlive, queue,
                   slowDrain, sudoVars, mainVars,
                   monVars, ctxVars, fnVars>>

(***************************************************************************)
(* Privilege escalation                                                    *)
(***************************************************************************)

MaxProcs == 2
MaxAttempts == 3

(* os.getuid(): root, or an ordinary user. *)
Uids == {0, 1000}
Passwords == {"secret", "wrong"}
(* The password the elevation helper (sudo) accepts. *)
RealPassword == "secret"
(* What the user types at up to three successive getpass prompts (read    *)
(* only when a prompt is made).                                            *)
EntrySeqs == [1..MaxAttempts -> Passwords]

Commands == { <<"sh", "miniconda.sh">>, <<"conda", "clean">> }
(* append_env dictionaries, as their items() in order. *)
EnvChoices == { <<>>,
                << <<"FSLDIR", "/dest">> >>,
                << <<"FSL_CREATE_WRAPPER_SCRIPTS", "1">>,
                   <<"FSLDIR", "/dest">> >> }

(* The text sudo_popen writes to the wrapper script, line by line. *)
WrapperScript(cmd, append_env) ==
    << <<"#!/usr/bin/env sh">>,
       <<"set -e">>,
       <<"thisfile=$0">>,
       <<"thisdir=$(cd $(dirname $0) && pwd)">> >>
    \o [i \in 1..Len(append_env) |->
            <<"export", append_env[i][1], append_env[i][2]>>]
    \o << <<"run", cmd>>,
          <<"cd ${thisdir} && rm ${thisfile}">> >>

(* sh running the wrapper script from line i on; cmdOk: the wrapped        *)
(* command exits with status 0.  Under "set -e" a failing command ends     *)
(* the script at once.                                                     *)
RECURSIVE RunScript(_, _, _, _)
RunScript(script, i, st, cmdOk) ==
    IF i > Len(script) THEN st
    ELSE LET l == script[i] IN
         CASE l[1] = "set -e" ->
                RunScript(script, i + 1, [st EXCEPT !.errexit = TRUE], cmdOk)
           [] l[1] = "export" ->
                RunScript(script, i + 1,
                          [st EXCEPT !.env = @ \cup {<<l[2], l[3]>>}], cmdOk)
           [] l[1] = "run" ->
                LET ran == [st EXCEPT !.ran = TRUE, !.cmdEnv = st.env,
                                      !.rc = IF cmdOk THEN 0 ELSE 1]
                IN  IF ~cmdOk /\ st.errexit THEN ran
                    ELSE RunScript(script, i + 1, ran, cmdOk)
           [] l[1] = "cd ${thisdir} && rm ${thisfile}" ->
                RunScript(script, i + 1,
                          [st EXCEPT !.removed = TRUE, !.rc = 0], cmdOk)
           [] OTHER ->
                RunScript(script, i + 1, st, cmdOk)

ShellStart == [errexit |-> FALSE, env |-> {}, ran |-> FALSE, cmdEnv |-> {},
               removed |-> FALSE, rc |-> 0]

(* "sudo -S -k wrapper": the helper reads the password from its standard   *)
(* input and runs the wrapper only if the password is accepted.            *)
Sudo(script, stdin, cmdOk) ==
    IF stdin = Some(RealPassword)
    THEN RunScript(script, 1, ShellStart, cmdOk)
    ELSE [ShellStart EXCEPT !.rc = 1]

(* Process.sudo_popen: the process it starts, with its wrapper script in   *)
(* the temporary file `file`.                                              *)
sudo_popen(cmd, password, append_env, file) ==
    [elevated |-> TRUE,
     argv     |-> <<"sudo", "-S", "-k", file>>,
     wrapper  |-> file,
     script   |-> WrapperScript(cmd, append_env),
     stdin    |-> password,
     env      |-> {},
     state    |-> "running",
     rc       |-> None,
     cmdEnv   |-> {}]

(* The process once it has finished. *)
Finished(p, cmdOk) ==
    IF p.elevated
    THEN LET r == Sudo(p.script, p.stdin, cmdOk)
         IN  [p EXCEPT !.state = "finished", !.rc = Some(r.rc),
                       !.cmdEnv = r.cmdEnv]
    ELSE [p EXCEPT !.state = "finished",
                   !.rc = Some(IF cmdOk THEN 0 ELSE 1),
                   !.cmdEnv = p.env]

(* Whether the wrapper of a finished elevated process deleted itself. *)
WrapperRemoved(p, cmdOk) ==
    p.elevated /\ Sudo(p.script, p.stdin, cmdOk).removed

(* validate_admin_password of get_admin_password, accepting anything. *)
validate_always(password, file) == TRUE

(* validate_admin_password of get_admin_password: runs "sudo true" with    *)
(* the password and checks the exit status.                                *)
validate_admin_password(password, file) ==
    Finished(sudo_popen(<<"true">>, Some(password), <<>>, file), TRUE).rc
        = Some(0)

(* Context.get_admin_password, given what the user types at the prompts:   *)
(* the number of prompts made, and whether the last one validated.         *)
NumPrompts(entries, base) ==
    IF \E i \in 1..MaxAttempts : validate_admin_password(entries[i], base + i)
    THEN CHOOSE i \in 1..MaxAttempts :
            /\ validate_admin_password(entries[i], base + i)
            /\ \A j \in 1..(i - 1) :
                  ~validate_admin_password(entries[j], base + j)
    ELSE MaxAttempts

get_admin_password(entries, base) ==
    LET n     == NumPrompts(entries, base)
        valid == validate_admin_password(entries[n], base + n)
        run(i) == Finished(sudo_popen(<<"true">>, Some(entries[i]), <<>>,
                                      base + i), TRUE)
    IN  [prompts  |-> SubSeq(entries, 1, n),
         raised   |-> ~valid,
         password |-> IF valid THEN Some(entries[n]) ELSE None,
         procs    |-> [i \in 1..n |->
                          [by   |-> "get_admin_password",
                           req  |-> [cmd |-> <<"true">>, admin |-> TRUE,
                                     append_env |-> <<>>],
                           proc |-> run(i)]],
         left     |-> {base + i : i \in
                          {j \in 1..n :
                              ~WrapperRemoved(sudo_popen(<<"true">>,
                                  Some(entries[j]), <<>>, base + j), TRUE)}}]

(* The Context.admin_password property without its two early returns. *)
admin_password_uncached(cache, need, entries, base) ==
    LET r == get_admin_password(entries, base)
    IN  [value |-> None, cache |-> r.password, raised |-> r.raised,
         prompts |-> r.prompts, procs |-> r.procs, left |-> r.left]

(* The Context.admin_password property, read with the cached password      *)
(* `cache` and the flag `need`: the value it returns, the cache after the  *)
(* read and what get_admin_password did, if it was called.                 *)
admin_password(cache, need, entries, base) ==
    LET quiet(v) == [value |-> v, cache |-> cache, raised |-> FALSE,
                     prompts |-> <<>>, procs |-> <<>>, left |-> {}]
    IN  IF cache # None THEN quiet(cache)
        ELSE IF need = Some(FALSE) THEN quiet(None)
        ELSE LET r == get_admin_password(entries, base)
             IN  [value |-> None, cache |-> r.password, raised |-> r.raised,
                  prompts |-> r.prompts, procs |-> r.procs, left |-> r.left]

SudoInit ==
    /\ uid \in Uids
    /\ needAdmin = None
    /\ adminPassword = None
    /\ promptLog = <<>>
    /\ credReads = 0
    /\ disk = {}
    /\ nextFile = 0
    /\ procs = <<>>
    /\ sudoPc = "start"

(* Context.finalise_settings: need_admin is resolved (check_need_admin:    *)
(* the parent of the destination is not writable), then admin_password is  *)
(* read.                                                                   *)
FinaliseSettings(need, entries) ==
    /\ sudoPc = "start"
    /\ needAdmin' = Some(need)
    /\ LET r == admin_password(adminPassword, Some(need), entries, nextFile)
       IN  /\ adminPassword' = r.cache
           /\ promptLog' = promptLog \o r.prompts
           /\ procs' = procs \o r.procs
           /\ disk' = disk \cup r.left
           /\ nextFile' = nextFile + Len(r.procs)
           /\ sudoPc' = IF r.raised THEN "failed" ELSE "ready"
    /\ UNCHANGED <<uid, credReads, procVars, mainVars,
                   monVars, ctxVars, fnVars>>

(* The first line of Process.popen, without the check of the user id. *)
ElevateAlways(admin) == admin

(* The first line of Process.popen: admin and os.getuid() != 0. *)
Elevate(admin) == admin /\ uid # 0

(* Process.popen(cmd, admin, ctx, append_env).  The installer passes       *)
(* admin=ctx.need_admin, or leaves the default admin=False.                *)
Popen(cmd, admin, append_env, entries) ==
    /\ sudoPc = "ready"
    /\ Len(SelectSeq(procs, LAMBDA e : e.by = "popen")) < MaxProcs
    /\ LET elevated == Elevate(admin)
           req == [cmd |-> cmd, admin |-> admin, append_env |-> append_env]
       IN  IF elevated
           THEN LET r == admin_password(adminPassword, needAdmin, entries,
                                        nextFile)
                    file == nextFile + Len(r.procs) + 1
                IN  /\ credReads' = credReads + 1
                    /\ adminPassword' = r.cache
                    /\ promptLog' = promptLog \o r.prompts
                    /\ nextFile' = file
                    /\ IF r.raised
                       THEN /\ sudoPc' = "failed"
                            /\ procs' = procs \o r.procs
                            /\ disk' = disk \cup r.left
                       ELSE /\ sudoPc' = sudoPc
                            /\ disk' = disk \cup r.left \cup {file}
                            /\ procs' = procs \o r.procs \o
                                 << [by   |-> "popen",
                                     req  |-> req,
                                     proc |-> sudo_popen(cmd, r.value,
                                                 append_env, file)] >>
           ELSE /\ procs' = Append(procs,
                       [by   |-> "popen",
                        req  |-> req,
                        proc |-> [elevated |-> FALSE,
                                  argv     |-> cmd,
                                  wrapper  |-> 0,
                                  script   |-> <<>>,
                                  stdin    |-> None,
                                  env      |-> {append_env[i] :
                                                i \in 1..Len(append_env)},
                                  state    |-> "running",
                                  rc       |-> None,
                                  cmdEnv   |-> {}]])
                /\ UNCHANGED <<credReads, adminPassword, promptLog,
                               nextFile, sudoPc, disk>>
    /\ UNCHANGED <<uid, needAdmin, procVars, mainVars,
                   monVars, ctxVars, fnVars>>

(* A launched command runs to its end. *)
CommandExits(i, cmdOk) ==
    /\ i \in 1..Len(procs)
    /\ procs[i].proc.state = "running"
    /\ procs' = [procs EXCEPT ![i].proc = Finished(@, cmdOk)]
    /\ disk' = IF WrapperRemoved(procs[i].proc, cmdOk)
               THEN disk \ {procs[i].proc.wrapper}
               ELSE disk
    /\ UNCHANGED <<uid, needAdmin, adminPassword, promptLog, credReads,
                   nextFile, sudoPc, procVars, mainVars,
                   monVars, ctxVars, fnVars>>

(* What the callers of Process.popen pass as admin: ctx.need_admin, or     *)
(* nothing (the default, False).                                           *)
AdminChoices == {FALSE, needAdmin = Some(TRUE)}

(* The entries a read of ctx.admin_password can consume. *)
PromptEntries ==
    IF adminPassword = None /\ needAdmin # Some(FALSE)
    THEN EntrySeqs
    ELSE {[i \in 1..MaxAttempts |-> "wrong"]}

NextSudo ==
    \/ \E need \in BOOLEAN, entries \in EntrySeqs :
          FinaliseSettings(need, entries)
    \/ \E cmd \in Commands, admin \in AdminChoices,
          append_env \in EnvChoices, entries \in PromptEntries :
          Popen(cmd, admin, append_env, entries)
    \/ \E i \in 1..MaxProcs + MaxAttempts, cmdOk \in BOOLEAN :
          CommandExits(i, cmdOk)

(***************************************************************************)
(* Install orchestrator                                                    *)
(***************************************************************************)

MaxOldDirs == 1
MaxRelaunch == 2

(* Version: the integer components of a version string. *)
VersionEq(a, b) ==
    /\ \A i \in 1..(IF Len(a) < Len(b) THEN Len(a) ELSE Len(b)) : a[i] = b[i]
    /\ Len(a) = Len(b)

RECURSIVE VersionLtFrom(_, _, _)
VersionLtFrom(a, b, i) ==
    IF i > Len(a) \/ i > Len(b) THEN Len(a) < Len(b)
    ELSE IF a[i] < b[i] THEN TRUE
    ELSE IF a[i] > b[i] THEN FALSE
    ELSE VersionLtFrom(a, b, i + 1)

(* Version.__lt__ without the comparison of the lengths of a prefix. *)
VersionLtSameLength(a, b) == Len(a) = Len(b) /\ VersionLtFrom(a, b, 1)

(* Version.__lt__ *)
VersionLt(a, b) == VersionLtFrom(a, b, 1)

(* functools.total_ordering: a <= b is a < b or a == b. *)
VersionLe(a, b) == VersionLt(a, b) \/ VersionEq(a, b)

(* __version__ = '1.9.0' *)
ThisVersion == <<1, 9, 0>>

(* Installer versions a manifest may declare. *)
ManifestVersions == { <<>>, <<1>>, <<1, 9>>, <<1, 9, 0>>, <<1, 9, 0, 0>>,
                      <<1, 8, 12>>, <<1, 9, 1>>, <<1, 10>>, <<2>> }

ArgSets == [no_self_update : BOOLEAN, no_checksum : BOOLEAN,
            workdir : BOOLEAN, overwrite : BOOLEAN, listversions : BOOLEAN]

ScratchSlots == 0..MaxOldDirs

MainInit ==
    /\ pc = "start"
    /\ args \in ArgSets
    /\ origArgs = args
    /\ image = "current"
    /\ relaunches = 0
    /\ suCall = None
    /\ downloads = {}
    /\ warnings = {}
    /\ dest \in {"absent", "prior"}
    /\ scratch \in [ScratchSlots -> {"absent", "older"}]
    /\ scratch[MaxOldDirs] = "absent"
    /\ (~args.workdir => \A i \in ScratchSlots : scratch[i] = "absent")
    /\ oldDestdir = None
    /\ failedStep = None
    /\ configured = FALSE
    /\ exitCode = None
    /\ mismatched = {}
    /\ printed = <<>>
    /\ markerWritten = FALSE

(* self_update with `<` in place of `<=`. *)
self_update_lt(latestver, downloadOk, shaOk, checksum) ==
    IF VersionLt(latestver, ThisVersion) THEN "noop"
    ELSE IF ~downloadOk THEN "download_error"
    ELSE IF checksum /\ ~shaOk THEN "bad_checksum"
    ELSE "execv"

(* self_update running the new installer whatever its checksum. *)
self_update_unchecked(latestver, downloadOk, shaOk, checksum) ==
    IF VersionLe(latestver, ThisVersion) THEN "noop"
    ELSE IF ~downloadOk THEN "download_error"
    ELSE "execv"

(* self_update(manifest, workdir, checksum): what it does, given the       *)
(* manifest's installer version, whether download_file succeeds and        *)
(* whether the downloaded file has the manifest's SHA-256.                 *)
self_update(latestver, downloadOk, shaOk, checksum) ==
    IF VersionLe(latestver, ThisVersion) THEN "noop"
    ELSE IF ~downloadOk THEN "download_error"
    ELSE IF checksum /\ ~shaOk THEN "bad_checksum"
    ELSE "execv"

(* The re-launch command line, without the added flag. *)
RelaunchArgsSame(a) == a

(* sys.argv[1:] + ['--no_self_update'] *)
RelaunchArgs(a) == [a EXCEPT !.no_self_update = TRUE]

(* Leaving the tempdir context manager: a temporary directory is removed   *)
(* with everything in it, a --workdir directory is kept.                   *)
TempdirExit(scr) ==
    IF args.workdir THEN scr ELSE [i \in ScratchSlots |-> "absent"]

(* The end of the process after a failure, with exit status 0. *)
AbortStatusZero(step, inTempdir, newDest, newScratch) ==
    /\ pc' = "exited"
    /\ exitCode' = Some(0)
    /\ failedStep' = Some(step)
    /\ dest' = newDest
    /\ scratch' = IF inTempdir THEN TempdirExit(newScratch) ELSE newScratch

(* The process ends with an uncaught exception or sys.exit(1) raised by    *)
(* `step`, leaving the tempdir context if it was inside it.                *)
Abort(step, inTempdir, newDest, newScratch) ==
    /\ pc' = "exited"
    /\ exitCode' = Some(1)
    /\ failedStep' = Some(step)
    /\ dest' = newDest
    /\ scratch' = IF inTempdir THEN TempdirExit(newScratch) ELSE newScratch

(* main: "if not args.no_self_update: self_update(ctx.manifest, ...)".     *)
SkipSelfUpdate ==
    /\ pc = "start"
    /\ args.no_self_update
    /\ pc' = "settings"
    /\ UNCHANGED <<args, origArgs, image, relaunches, suCall, downloads,
                   warnings, dest, scratch, oldDestdir, failedStep,
                   configured, exitCode, mismatched, printed,
                   markerWritten,
                   procVars, sudoVars,
                   monVars, ctxVars, fnVars>>

SelfUpdate(manifestOk, latestver, downloadOk, shaOk) ==
    /\ pc = "start"
    /\ ~args.no_self_update
    /\ relaunches < MaxRelaunch
    /\ IF ~manifestOk
       THEN /\ Abort("download_manifest", FALSE, dest, scratch)
            /\ UNCHANGED <<args, image, relaunches, suCall, downloads,
                           warnings>>
       ELSE LET what == self_update(latestver, downloadOk, shaOk,
                                    ~args.no_checksum)
            IN  /\ suCall' = Some([latestver |-> latestver,
                                   downloadOk |-> downloadOk,
                                   shaOk |-> shaOk,
                                   checksum |-> ~args.no_checksum])
                /\ downloads' = downloads \cup {"manifest"} \cup
                       (IF what \in {"bad_checksum", "execv"}
                        THEN {"installer"} ELSE {})
                /\ warnings' = warnings \cup
                       (IF what = "bad_checksum"
                        THEN {"New installer file does not match expected checksum"}
                        ELSE {})
                /\ CASE what = "download_error" ->
                          /\ Abort("self_update", FALSE, dest, scratch)
                          /\ UNCHANGED <<args, image, relaunches>>
                     [] what = "execv" ->
                          /\ args' = RelaunchArgs(args)
                          /\ image' = "new"
                          /\ relaunches' = relaunches + 1
                          /\ pc' = "start"
                          /\ UNCHANGED <<dest, scratch, failedStep, exitCode>>
                     [] OTHER ->
                          /\ pc' = "settings"
                          /\ UNCHANGED <<args, image, relaunches, dest,
                                         scratch, failedStep, exitCode>>
    /\ UNCHANGED <<origArgs, oldDestdir, configured, mismatched, printed,
                   markerWritten,
                   procVars, sudoVars,
                   monVars, ctxVars, fnVars>>

(* The message of list_available_versions. *)
MsgVersions == "Available FSL versions:"

(* main listing the versions and then going on with the installation. *)
ListVersionsThenInstall(ok) ==
    /\ pc = "settings"
    /\ args.listversions
    /\ pc' = "tempdir"
    /\ printed' = Append(printed, MsgVersions)
    /\ downloads' = downloads \cup {"manifest"}
    /\ UNCHANGED <<dest, scratch, failedStep, exitCode>>
    /\ UNCHANGED <<args, origArgs, image, relaunches, suCall, warnings,
                   oldDestdir, configured, mismatched, markerWritten,
                   procVars, sudoVars, monVars, ctxVars, fnVars>>

(* main: "if args.listversions: list_available_versions(ctx.manifest);     *)
(* sys.exit(0)".  The manifest is downloaded now (ok: the download         *)
(* succeeds) unless self_update has read it in this process.               *)
ListVersions(ok) ==
    /\ pc = "settings"
    /\ args.listversions
    /\ IF ok \/ ~args.no_self_update
       THEN /\ pc' = "exited"
            /\ exitCode' = Some(0)
            /\ printed' = Append(printed, MsgVersions)
            /\ downloads' = downloads \cup {"manifest"}
            /\ UNCHANGED <<dest, scratch, failedStep>>
       ELSE /\ Abort("download_manifest", FALSE, dest, scratch)
            /\ UNCHANGED <<printed, downloads>>
    /\ UNCHANGED <<args, origArgs, image, relaunches, suCall, warnings,
                   oldDestdir, configured, mismatched, markerWritten,
                   procVars, sudoVars, monVars, ctxVars, fnVars>>

(* ctx.finalise_settings(): the manifest, the platform, the build, the     *)
(* destination and the admin password are resolved; any of them may raise. *)
Settings(ok) ==
    /\ pc = "settings"
    /\ ~args.listversions
    /\ IF ok
       THEN /\ pc' = "tempdir"
            /\ UNCHANGED <<dest, scratch, failedStep, exitCode>>
       ELSE Abort("finalise_settings", FALSE, dest, scratch)
    /\ downloads' = downloads \cup {"manifest"}
    /\ UNCHANGED mismatched
    /\ UNCHANGED <<args, origArgs, image, relaunches, suCall, warnings,
                   oldDestdir, configured, printed, markerWritten,
                   procVars, sudoVars,
                   monVars, ctxVars, fnVars>>

(* overwrite_destdir always using the name old_destdir0. *)
UniqueOldNameFirst(scr) == 0

(* The name search of overwrite_destdir: the first old_destdir<i> that     *)
(* does not exist.                                                         *)
UniqueOldName(scr) ==
    CHOOSE i \in ScratchSlots :
        /\ scr[i] = "absent"
        /\ \A j \in 0..(i - 1) : scr[j] # "absent"

(* main enters tempdir(args.workdir), sets ctx.update and ctx.exists and   *)
(* calls overwrite_destdir if the destination exists.  response: the       *)
(* answer to "Do you want to overwrite it"; mvOk: the mv command exits 0.  *)
Overwrite(response, mvOk) ==
    /\ pc = "tempdir"
    /\ IF dest = "absent"
       THEN /\ pc' = "download_env"
            /\ UNCHANGED <<dest, scratch, oldDestdir, failedStep, exitCode>>
       ELSE IF ~args.overwrite /\ response \notin {"y", "yes"}
       THEN /\ Abort("overwrite_declined", TRUE, dest, scratch)
            /\ UNCHANGED oldDestdir
       ELSE LET i == UniqueOldName(scratch)
            IN  /\ oldDestdir' = Some(i)
                /\ IF mvOk
                   THEN /\ scratch' = [scratch EXCEPT ![i] = dest]
                        /\ dest' = "absent"
                        /\ pc' = "download_env"
                        /\ UNCHANGED <<failedStep, exitCode>>
                   ELSE Abort("overwrite_destdir", TRUE, dest, scratch)
    /\ UNCHANGED <<args, origArgs, image, relaunches, suCall, downloads,
                   warnings, configured, mismatched, printed,
                   markerWritten,
                   procVars, sudoVars,
                   monVars, ctxVars, fnVars>>

(* A download without the checksum test. *)
FetchUnchecked(downloadOk, shaOk, checksum) ==
    IF ~downloadOk THEN "download_error" ELSE "ok"

(* A download followed by the optional checksum test of sha256(). *)
Fetch(downloadOk, shaOk, checksum) ==
    IF ~downloadOk THEN "download_error"
    ELSE IF checksum /\ ~shaOk THEN "bad_checksum"
    ELSE "ok"

(* download_fsl_environment(ctx): called by main inside tempdir but        *)
(* outside handle_error.  hasSha: the build entry of the manifest has a    *)
(* 'sha256' key; shaOk: the downloaded file has that digest.               *)
DownloadEnvironment(downloadOk, shaOk, hasSha) ==
    /\ pc = "download_env"
    /\ IF Fetch(downloadOk, shaOk, hasSha /\ ~args.no_checksum) = "ok"
       THEN /\ pc' = "download_miniconda"
            /\ UNCHANGED <<dest, scratch, failedStep, exitCode>>
       ELSE Abort("download_fsl_environment", TRUE, dest, scratch)
    /\ downloads' = downloads \cup
           (IF downloadOk THEN {"environment"} ELSE {})
    /\ mismatched' = mismatched \cup
           (IF downloadOk /\ hasSha /\ ~shaOk THEN {"environment"} ELSE {})
    /\ UNCHANGED <<args, origArgs, image, relaunches, suCall, warnings,
                   oldDestdir, configured, printed, markerWritten,
                   procVars, sudoVars,
                   monVars, ctxVars, fnVars>>

(* The messages of handle_error. *)
MsgError == "ERROR occurred during installation!"
MsgUpdateFailed == "Update failed - your FSL installation might be corrupt!"
MsgRemoving == "Removing failed installation directory"
MsgRestoring == "Restoring contents of the destination"
MsgFailed == "FSL installation failed!"
MsgLogFile == "The log file may contain some more information: ctx.logfile"

(* A truth value of ctx.update that is always false. *)
TruthyNever(update) == FALSE

(* Python's truth value of ctx.update: None and '' are false. *)
Truthy(update) == update # None /\ update # Some("")

(* The except clause of handle_error without the removal of the failed     *)
(* installation directory.                                                 *)
handle_error_keep(d, scr, old, update) ==
    LET restore == d = "absent" /\ old # None
    IN  [dest    |-> IF restore THEN scr[old[1]] ELSE d,
         scratch |-> IF restore THEN [scr EXCEPT ![old[1]] = "absent"]
                     ELSE scr,
         printed |-> <<MsgError>>
                     \o (IF Truthy(update) THEN <<MsgUpdateFailed>>
                         ELSE <<>>)
                     \o (IF restore THEN <<MsgRestoring>> ELSE <<>>)
                     \o <<MsgFailed, MsgLogFile>>,
         exit    |-> 1]

(* The except clause of handle_error: the destination and the scratch      *)
(* directory it leaves, before sys.exit(1).                                *)
handle_error(d, scr, old, update) ==
    LET remove  == ~Truthy(update) /\ d # "absent"
        d1      == IF remove THEN "absent" ELSE d
        restore == d1 = "absent" /\ old # None
    IN  [dest    |-> IF restore THEN scr[old[1]] ELSE d1,
         scratch |-> IF restore THEN [scr EXCEPT ![old[1]] = "absent"]
                     ELSE scr,
         printed |-> <<MsgError>>
                     \o (IF Truthy(update) THEN <<MsgUpdateFailed>>
                         ELSE IF remove THEN <<MsgRemoving>> ELSE <<>>)
                     \o (IF restore THEN <<MsgRestoring>> ELSE <<>>)
                     \o <<MsgFailed, MsgLogFile>>,
         exit    |-> 1]

(* ctx.update: main sets it to None (the update facility is disabled). *)
CtxUpdate == None

(* `step` raised inside "with handle_error(ctx)", leaving the destination  *)
(* as `d`: the handler runs, then sys.exit(1) leaves tempdir.              *)
Handled(step, d) ==
    LET r == handle_error(d, scratch, oldDestdir, CtxUpdate)
    IN  /\ Abort(step, TRUE, r.dest, r.scratch)
        /\ printed' = printed \o r.printed

mainFrame == <<args, origArgs, image, relaunches, suCall, warnings,
               oldDestdir, configured, procVars, sudoVars,
                   monVars, ctxVars, fnVars>>

DownloadMiniconda(downloadOk, shaOk) ==
    /\ pc = "download_miniconda"
    /\ IF Fetch(downloadOk, shaOk, ~args.no_checksum) = "ok"
       THEN /\ pc' = "install_miniconda"
            /\ UNCHANGED <<dest, scratch, failedStep, exitCode, printed>>
       ELSE Handled("download_miniconda", dest)
    /\ downloads' = downloads \cup (IF downloadOk THEN {"miniconda"} ELSE {})
    /\ mismatched' = mismatched \cup
           (IF downloadOk /\ ~shaOk THEN {"miniconda"} ELSE {})
    /\ UNCHANGED <<markerWritten, mainFrame>>

(* install_miniconda: "sh miniconda.sh -b -p destdir", the touch of every  *)
(* file and the copy of .condarc; a failure may leave a partial directory. *)
InstallMiniconda(outcome) ==
    /\ pc = "install_miniconda"
    /\ CASE outcome = "ok" ->
              /\ pc' = "install_fsl"
              /\ dest' = "miniconda"
              /\ UNCHANGED <<scratch, failedStep, exitCode, printed>>
         [] outcome = "failed_partial" ->
              Handled("install_miniconda", "partial")
         [] OTHER ->
              Handled("install_miniconda", dest)
    /\ UNCHANGED <<downloads, mismatched, markerWritten, mainFrame>>

(* install_fsl going from its first command straight to the finalisation,  *)
(* without the command that installs the main environment.                 *)
InstallBasePackagesOnly(hasBase, ok) ==
    /\ pc = "install_fsl"
    /\ IF ~hasBase \/ ok
       THEN /\ pc' = "finalise"
            /\ UNCHANGED <<dest, scratch, failedStep, exitCode, printed>>
       ELSE Handled("install_fsl", "partial")
    /\ UNCHANGED <<downloads, mismatched, markerWritten, mainFrame>>

(* install_fsl, first command: "conda install -y -n base <base packages>", *)
(* which is on the command list only if the environment file names base   *)
(* packages; monitor_progress runs it to its end before the next command   *)
(* and raises if it fails.                                                 *)
InstallBasePackages(hasBase, ok) ==
    /\ pc = "install_fsl"
    /\ IF ~hasBase \/ ok
       THEN /\ pc' = "install_env"
            /\ UNCHANGED <<dest, scratch, failedStep, exitCode, printed>>
       ELSE Handled("install_fsl", "partial")
    /\ UNCHANGED <<downloads, mismatched, markerWritten, mainFrame>>

(* install_fsl, second command: "conda env update -n base -f <file>". *)
InstallFsl(ok) ==
    /\ pc = "install_env"
    /\ IF ok
       THEN /\ pc' = "finalise"
            /\ dest' = "fsl"
            /\ UNCHANGED <<scratch, failedStep, exitCode, printed>>
       ELSE Handled("install_fsl", "partial")
    /\ UNCHANGED <<downloads, mismatched, markerWritten, mainFrame>>

(* finalise_installation: three cp commands, the first of which copies     *)
(* fslversion; outcome names how far it got.                               *)
Finalise(outcome) ==
    /\ pc = "finalise"
    /\ CASE outcome = "ok" ->
              /\ pc' = "cleanup"
              /\ dest' = "finalised"
              /\ UNCHANGED <<scratch, failedStep, exitCode, printed>>
         [] outcome = "failed_after_marker" ->
              Handled("finalise_installation", "marked")
         [] OTHER ->
              Handled("finalise_installation", dest)
    /\ markerWritten' = (outcome \in {"ok", "failed_after_marker"})
    /\ UNCHANGED <<downloads, mismatched, mainFrame>>

(* post_install_cleanup, then the end of the handle_error and tempdir      *)
(* blocks.                                                                 *)
Cleanup(ok) ==
    /\ pc = "cleanup"
    /\ IF ok
       THEN /\ pc' = "configure"
            /\ scratch' = TempdirExit(scratch)
            /\ UNCHANGED <<dest, failedStep, exitCode, printed>>
       ELSE Handled("post_install_cleanup", dest)
    /\ UNCHANGED <<downloads, mismatched, markerWritten, mainFrame>>

(* configure_shell and configure_matlab, then main returns. *)
Configure(ok) ==
    /\ pc = "configure"
    /\ IF ok
       THEN /\ configured' = TRUE
            /\ pc' = "exited"
            /\ exitCode' = Some(0)
            /\ UNCHANGED <<dest, scratch, failedStep>>
       ELSE /\ Abort("configure", FALSE, dest, scratch)
            /\ UNCHANGED configured
    /\ UNCHANGED <<args, origArgs, image, relaunches, suCall, downloads,
                   warnings, oldDestdir, mismatched, printed,
                   markerWritten,
                   procVars, sudoVars,
                   monVars, ctxVars, fnVars>>

NextMain ==
    \/ SkipSelfUpdate
    \/ \E manifestOk \in BOOLEAN, latestver \in ManifestVersions,
          downloadOk \in BOOLEAN, shaOk \in BOOLEAN :
          SelfUpdate(manifestOk, latestver, downloadOk, shaOk)
    \/ \E ok \in BOOLEAN : ListVersions(ok)
    \/ \E ok \in BOOLEAN : Settings(ok)
    \/ \E response \in {"y", "n", ""}, mvOk \in BOOLEAN :
          Overwrite(response, mvOk)
    \/ \E downloadOk \in BOOLEAN, shaOk \in BOOLEAN, hasSha \in BOOLEAN :
          DownloadEnvironment(downloadOk, shaOk, hasSha)
    \/ \E downloadOk \in BOOLEAN, shaOk \in BOOLEAN :
          DownloadMiniconda(downloadOk, shaOk)
    \/ \E outcome \in {"ok", "failed_partial", "failed"} :
          InstallMiniconda(outcome)
    \/ \E hasBase \in BOOLEAN, ok \in BOOLEAN : InstallBasePackages(hasBase, ok)
    \/ \E ok \in BOOLEAN : InstallFsl(ok)
    \/ \E outcome \in {"ok", "failed_after_marker", "failed"} :
          Finalise(outcome)
    \/ \E ok \in BOOLEAN : Cleanup(ok)
    \/ \E ok \in BOOLEAN : Configure(ok)


(***************************************************************************)
(* Process.monitor_progress                                                *)
(***************************************************************************)

MaxCmds == 2

(* "if total": an expected line count was given and is not zero. *)
TotalGiven == total # None /\ total # Some(0)

(* monitor_progress(cmd, total) is called with a list of commands; no      *)
(* Process exists yet.                                                     *)
MonitorInit ==
    /\ cmds \in 1..MaxCmds
    /\ cmdIndex = 0
    /\ monPc = "for"
    /\ rcLog = <<>>
    /\ total \in {None, Some(0), Some(MaxLines)}
    /\ nlines = IF TotalGiven THEN Some(0) ELSE None
    /\ linesBefore = 0

(* "for cmd in cmds: proc = Process(cmd, ...)": the next command is        *)
(* started, with its two reader threads.  What the command writes and its  *)
(* exit status are input.                                                  *)
StartCommand(lines, status) ==
    /\ monPc = "for"
    /\ cmdIndex < cmds
    /\ cmdIndex' = cmdIndex + 1
    /\ linesBefore' = linesBefore + written["stdout"]
    /\ toWrite' = lines
    /\ written' = [s \in Streams |-> 0]
    /\ pipe' = [s \in Streams |-> <<>>]
    /\ streamOpen' = [s \in Streams |-> TRUE]
    /\ childState' = "running"
    /\ exitStatus' = status
    /\ popenReturncode' = None
    /\ threadAlive' = [s \in Streams |-> TRUE]
    /\ queue' = [s \in Streams |-> <<>>]
    /\ observed' = None
    /\ slowDrain' = FALSE
    /\ monPc' = "while"
    /\ UNCHANGED <<cmds, rcLog, total, nlines, sudoVars, mainVars, ctxVars,
                   fnVars>>

(* What follows the loop whatever the return code. *)
AfterLoopUnchecked(rc) == "for"

(* What follows the loop: the next command on return code 0, a             *)
(* RuntimeError otherwise.                                                 *)
AfterLoop(rc) == IF rc = Some(0) THEN "for" ELSE "raised"

(* "while proc.returncode is None", and the test of the return code that   *)
(* follows the loop.                                                       *)
WhileReturncodeIsNone ==
    /\ monPc = "while"
    /\ observed' = returncode
    /\ IF returncode = None
       THEN /\ monPc' = "get"
            /\ UNCHANGED rcLog
       ELSE /\ monPc' = AfterLoop(returncode)
            /\ rcLog' = Append(rcLog, returncode[1])
    /\ UNCHANGED <<toWrite, written, pipe, streamOpen, childState,
                   exitStatus, popenReturncode, threadAlive, queue,
                   slowDrain, cmds, cmdIndex, total, nlines, linesBefore,
                   sudoVars, mainVars, ctxVars, fnVars>>

(* "line = proc.stdoutq.get()" without a timeout: it returns only when a   *)
(* line is on the queue.                                                   *)
QueueGetBlocking ==
    /\ monPc = "get"
    /\ queue["stdout"] # <<>>
    /\ queue' = [queue EXCEPT !["stdout"] = Tail(@)]
    /\ nlines' = IF TotalGiven THEN Some(nlines[1] + 1) ELSE None
    /\ monPc' = "poll"
    /\ UNCHANGED <<toWrite, written, pipe, streamOpen, childState,
                   exitStatus, popenReturncode, threadAlive, observed,
                   slowDrain, cmds, cmdIndex, rcLog, total, linesBefore,
                   sudoVars, mainVars, ctxVars, fnVars>>

(* "line = proc.stdoutq.get(timeout=0.5)": a line is taken and counted,    *)
(* or the queue stayed empty for the whole timeout (queue.Empty).          *)
QueueGet ==
    /\ monPc = "get"
    /\ IF queue["stdout"] # <<>>
       THEN /\ queue' = [queue EXCEPT !["stdout"] = Tail(@)]
            /\ nlines' = IF TotalGiven THEN Some(nlines[1] + 1) ELSE None
       ELSE UNCHANGED <<queue, nlines>>
    /\ monPc' = "poll"
    /\ UNCHANGED <<toWrite, written, pipe, streamOpen, childState,
                   exitStatus, popenReturncode, threadAlive, observed,
                   slowDrain, cmds, cmdIndex, rcLog, total, linesBefore,
                   sudoVars, mainVars, ctxVars, fnVars>>

(* "proc.popen.poll()" at the end of the loop body. *)
MonitorPoll ==
    /\ monPc = "poll"
    /\ IF popenReturncode = None /\ childState = "exited"
       THEN /\ popenReturncode' = Some(exitStatus)
            /\ slowDrain' = \E s \in Streams : pipe[s] # <<>>
       ELSE UNCHANGED <<popenReturncode, slowDrain>>
    /\ monPc' = "while"
    /\ UNCHANGED <<toWrite, written, pipe, streamOpen, childState,
                   exitStatus, threadAlive, queue, observed,
                   cmds, cmdIndex, rcLog, total, nlines, linesBefore,
                   sudoVars, mainVars, ctxVars, fnVars>>

(* The list of commands is exhausted: monitor_progress returns. *)
MonitorReturn ==
    /\ monPc = "for"
    /\ cmdIndex = cmds
    /\ monPc' = "done"
    /\ UNCHANGED <<procVars, cmds, cmdIndex, rcLog, total, nlines,
                   linesBefore, sudoVars, mainVars, ctxVars, fnVars>>

NextMonitor ==
    \/ \E lines \in [Streams -> 0..MaxLines], status \in {0, 1} :
          StartCommand(lines, status)
    \/ WhileReturncodeIsNone
    \/ QueueGet
    \/ MonitorPoll
    \/ MonitorReturn
    \/ \E s \in Streams : ChildWrite(s)
    \/ \E s \in Streams : ChildClose(s)
    \/ ChildExit
    \/ \E s \in Streams : forward_stream(s)

(***************************************************************************)
(* handle_error as a function of the state it finds                        *)
(***************************************************************************)

(* What the destination directory can hold when a step raises. *)
DestStates == {"absent", "prior", "partial", "miniconda", "fsl", "marked",
               "finalised"}

(* ctx.update: None, or the version string of the installation that is     *)
(* being updated.                                                          *)
UpdateValues == {None, Some(""), Some("6.0.6")}

(* The states handle_error can find: ctx.old_destdir, when set, names the  *)
(* directory the prior installation was moved to.                          *)
HandlerInputs ==
    { in \in [d      : DestStates,
              scr    : [ScratchSlots -> {"absent", "older", "prior"}],
              old    : {None} \cup {Some(i) : i \in ScratchSlots},
              update : UpdateValues] :
        \A i \in ScratchSlots :
            in.scr[i] = "prior" <=> in.old = Some(i) }

HandlerInit ==
    /\ fnIn \in HandlerInputs
    /\ fnOut = None

(* A step inside "with handle_error(ctx)" raises. *)
ApplyHandleError ==
    /\ fnOut = None
    /\ fnOut' = Some(handle_error(fnIn.d, fnIn.scr, fnIn.old, fnIn.update))
    /\ UNCHANGED <<fnIn, procVars, sudoVars, mainVars, monVars, ctxVars>>

NextHandler == ApplyHandleError

(***************************************************************************)
(* Context: lazily resolved settings                                       *)
(***************************************************************************)

(* The values of Context.identify_platform, and a host it rejects. *)
SupportedPlatforms == {"linux-64", "macos-64"}
Hosts == SupportedPlatforms \cup {"unsupported"}

(* Manifest files as they are downloaded: the 'versions' dictionary. *)
RawManifestA ==
    [versions |->
        ("latest" :> "6.2.0") @@
        ("6.2.0" :> << [platform |-> "linux-64", environment |-> "u1",
                        sha256 |-> "h1"],
                       [platform |-> "macos-64", environment |-> "u2",
                        sha256 |-> "h2"] >>)]

RawManifestB ==
    [versions |->
        ("latest" :> "6.3.0") @@
        ("6.2.0" :> << [platform |-> "linux-64", environment |-> "u1",
                        sha256 |-> "h1"] >>) @@
        ("6.3.0" :> << [platform |-> "linux-64", environment |-> "u3",
                        sha256 |-> "h3"] >>)]

RawManifests == {RawManifestA, RawManifestB}

(* Context.download_manifest, after the download: a 'version' attribute is *)
(* added to every build entry.                                             *)
download_manifest(raw) ==
    [versions |->
        [v \in DOMAIN raw.versions |->
            IF v = "latest" THEN raw.versions[v]
            ELSE [i \in 1..Len(raw.versions[v]) |->
                     raw.versions[v][i] @@ [version |-> v]]]]

(* Destination directories; the parent of the last one does not exist. *)
ValidDests == {"/usr/local/fsl", "/home/u/fsl"}
ParentExists(path) == path \in ValidDests

CtxArgSets == [fslversion     : {"latest", "6.2.0", "9.9.9"},
               dest           : {None, Some("/usr/local/fsl"),
                                 Some("/nodir/fsl")},
               no_self_update : BOOLEAN,
               listversions   : BOOLEAN]

(* What the world answers when the property s is read: the host, the      *)
(* manifest the URL serves (None: the download fails), the first valid     *)
(* answer to the destination prompt, whether the parent of the destination *)
(* is writable, and the passwords typed. A field that the property cannot  *)
(* consume has one value.                                                  *)
CtxEnvs(s) ==
    [host     : IF s \in {"platform", "build"}
                THEN Hosts ELSE {"linux-64"},
     raw      : IF s \in {"manifest", "build"}
                THEN {None} \cup {Some(m) : m \in RawManifests}
                ELSE {None},
     answer   : IF s \in {"destdir", "need_admin"}
                THEN ValidDests ELSE {"/usr/local/fsl"},
     writable : IF s = "need_admin" THEN BOOLEAN ELSE {TRUE},
     entries  : IF s = "admin_password"
                THEN PromptEntries ELSE {[i \in 1..MaxAttempts |-> "wrong"]}]

(* The private attributes of the Context, with what a property access      *)
(* returned (value), whether it raised, and what get_admin_password did.   *)
NoPrompt == [prompts |-> <<>>, procs |-> <<>>, left |-> {}]

CtxFields ==
    [platform |-> ctxPlatform, manifest |-> ctxManifest, build |-> ctxBuild,
     destdir |-> ctxDestdir, need_admin |-> needAdmin,
     admin_password |-> adminPassword, order |-> resolved,
     value |-> None, raised |-> FALSE, error |-> None, pw |-> NoPrompt]

(* Context.platform *)
platform(c, e) ==
    IF c.platform # None THEN [c EXCEPT !.value = c.platform]
    ELSE IF e.host \notin SupportedPlatforms THEN [c EXCEPT !.raised = TRUE]
    ELSE [c EXCEPT !.platform = Some(e.host),
                   !.order = Append(@, "platform"),
                   !.value = Some(e.host)]

(* Context.manifest downloading the manifest at every access. *)
manifest_uncached(c, e) ==
    IF e.raw = None THEN [c EXCEPT !.raised = TRUE]
    ELSE [c EXCEPT !.manifest = Some(download_manifest(e.raw[1])),
                   !.order = Append(@, "manifest"),
                   !.value = Some(download_manifest(e.raw[1]))]

(* Context.manifest *)
manifest(c, e) ==
    IF c.manifest # None THEN [c EXCEPT !.value = c.manifest]
    ELSE IF e.raw = None THEN [c EXCEPT !.raised = TRUE]
    ELSE [c EXCEPT !.manifest = Some(download_manifest(e.raw[1])),
                   !.order = Append(@, "manifest"),
                   !.value = Some(download_manifest(e.raw[1]))]

(* The first build entry of the version, whatever its platform. *)
FirstBuildAny(builds, plat) == IF builds # <<>> THEN 1 ELSE 0

(* The index of the first build entry for the platform (0: none). *)
FirstBuildFor(builds, plat) ==
    IF \E i \in 1..Len(builds) : builds[i].platform = plat
    THEN CHOOSE i \in 1..Len(builds) :
            /\ builds[i].platform = plat
            /\ \A j \in 1..(i - 1) : builds[j].platform # plat
    ELSE 0

(* The exceptions of Context.build: the message, and what it lists (the    *)
(* keys of the 'versions' dictionary, or the platform).                    *)
MsgNotAvailable == "FSL version is not available - available versions:"
MsgNoBuild == "Cannot find a version of FSL matching platform"

(* Context.build, last step: the first build entry for the platform, or   *)
(* an exception when there is none.                                        *)
build_pick(c, builds, i) ==
    IF i = 0
    THEN [c EXCEPT !.raised = TRUE,
                   !.error = Some([kind   |-> MsgNoBuild,
                                   detail |-> {c.platform[1]}])]
    ELSE [c EXCEPT !.build = Some(builds[i]),
                   !.order = Append(@, "build"),
                   !.value = Some(builds[i])]

(* Context.build, the candidates filtered on self.platform. *)
build_select(c, builds) ==
    IF c.raised THEN c
    ELSE build_pick(c, builds, FirstBuildFor(builds, c.platform[1]))

(* Context.build, the requested version looked up in the manifest:        *)
(* unknown versions raise, 'latest' is followed.                           *)
build_lookup(c, versions, e, a) ==
    IF a.fslversion \notin DOMAIN versions
    THEN [c EXCEPT !.raised = TRUE,
                   !.error = Some([kind   |-> MsgNotAvailable,
                                   detail |-> DOMAIN versions])]
    ELSE build_select(platform(c, e),
                      versions[IF a.fslversion = "latest"
                               THEN versions["latest"]
                               ELSE a.fslversion])

(* Context.build, once self.manifest has been read. *)
build_from_manifest(c, e, a) ==
    IF c.raised THEN c
    ELSE build_lookup(c, c.manifest[1].versions, e, a)

(* Context.build, for the command line a. *)
build(c, e, a) ==
    IF c.build # None THEN [c EXCEPT !.value = c.build]
    ELSE build_from_manifest(manifest(c, e), e, a)

(* Context.destdir: --dest if its parent exists, else the first answer to  *)
(* the prompt whose parent exists.                                         *)
destdir(c, e, a) ==
    IF c.destdir # None THEN [c EXCEPT !.value = c.destdir]
    ELSE LET d == IF a.dest # None /\ ParentExists(a.dest[1])
                  THEN a.dest[1] ELSE e.answer
         IN  [c EXCEPT !.destdir = Some(d),
                       !.order = Append(@, "destdir"),
                       !.value = Some(d)]

(* Context.need_admin, once self.destdir has been read. *)
need_admin_for(c, e) ==
    [c EXCEPT !.need_admin = Some(~e.writable),
              !.order = Append(@, "need_admin"),
              !.value = Some(~e.writable)]

(* Context.need_admin *)
need_admin(c, e, a) ==
    IF c.need_admin # None THEN [c EXCEPT !.value = c.need_admin]
    ELSE need_admin_for(destdir(c, e, a), e)

(* Context.admin_password, on the attributes c (r: what the property did). *)
read_admin_password(c, e) ==
    CHOOSE after \in
        { [c EXCEPT !.admin_password = r.cache,
                    !.order = IF r.cache # c.admin_password
                              THEN Append(@, "admin_password") ELSE @,
                    !.value = r.value,
                    !.raised = r.raised,
                    !.pw = [prompts |-> r.prompts, procs |-> r.procs,
                            left |-> r.left]] :
          r \in {admin_password(c.admin_password, c.need_admin, e.entries,
                                nextFile)} } : TRUE

SettingNames == {"platform", "manifest", "build", "destdir", "need_admin",
                 "admin_password"}

(* The access of the property named s. *)
ReadProperty(s, c, e, a) ==
    CASE s = "platform" -> platform(c, e)
      [] s = "manifest" -> manifest(c, e)
      [] s = "build" -> build(c, e, a)
      [] s = "destdir" -> destdir(c, e, a)
      [] s = "need_admin" -> need_admin(c, e, a)
      [] s = "admin_password" -> read_admin_password(c, e)

(* The private attribute behind the property named s. *)
Cached(s, c) ==
    CASE s = "platform" -> c.platform
      [] s = "manifest" -> c.manifest
      [] s = "build" -> c.build
      [] s = "destdir" -> c.destdir
      [] s = "need_admin" -> c.need_admin
      [] s = "admin_password" -> c.admin_password

(* finalise_settings reading the platform before the manifest. *)
FinaliseOrderPlatformFirst ==
    <<"platform", "manifest", "build", "destdir", "need_admin",
      "admin_password">>

(* Context.finalise_settings: the properties it reads, in its order. *)
FinaliseOrder ==
    <<"manifest", "platform", "build", "destdir", "need_admin",
      "admin_password">>

(* The position in finalise_settings after the read of the property s. *)
AfterRead(s) ==
    LET i == CHOOSE k \in 1..Len(FinaliseOrder) : FinaliseOrder[k] = s
    IN  IF i = Len(FinaliseOrder) THEN "ready" ELSE FinaliseOrder[i + 1]

(* Context.__init__ *)
ContextInit ==
    /\ ctxArgs \in CtxArgSets
    /\ ctxPlatform = None
    /\ ctxManifest = None
    /\ ctxBuild = None
    /\ ctxDestdir = None
    /\ resolved = <<>>
    /\ lastRead = None
    /\ ctxPc = "start"

(* The attributes c become the state of the Context; an exception ends     *)
(* the run.                                                                *)
Commit(c, nextPc) ==
    /\ ctxPlatform' = c.platform
    /\ ctxManifest' = c.manifest
    /\ ctxBuild' = c.build
    /\ ctxDestdir' = c.destdir
    /\ needAdmin' = c.need_admin
    /\ adminPassword' = c.admin_password
    /\ resolved' = c.order
    /\ promptLog' = promptLog \o c.pw.prompts
    /\ procs' = procs \o c.pw.procs
    /\ disk' = disk \cup c.pw.left
    /\ nextFile' = nextFile + Len(c.pw.procs)
    /\ ctxPc' = IF c.raised THEN "failed" ELSE nextPc
    /\ UNCHANGED <<ctxArgs, uid, credReads, sudoPc, procVars, mainVars,
                   monVars, fnVars>>

(* The attributes of a new Context. *)
Unresolved ==
    [platform |-> None, manifest |-> None, build |-> None, destdir |-> None,
     need_admin |-> None, admin_password |-> None, order |-> <<>>,
     value |-> None, raised |-> FALSE, error |-> None, pw |-> NoPrompt]

(* What a read of the property s returned (c: the attributes after it),    *)
(* what its attribute held before the read, and what a resolution at this  *)
(* moment would have produced.                                             *)
ReadRecord(s, c, e) ==
    Some([setting |-> s,
          before  |-> Cached(s, CtxFields),
          value   |-> c.value,
          raised  |-> c.raised,
          error   |-> c.error,
          fresh   |-> ReadProperty(s, Unresolved, e, ctxArgs).value])

(* main: self_update(ctx.manifest, ...), unless --no_self_update. *)
SelfUpdateReadsManifest(e) ==
    /\ ctxPc = "start"
    /\ ~ctxArgs.no_self_update
    /\ \E c \in {manifest(CtxFields, e)} :
          /\ lastRead' = ReadRecord("manifest", c, e)
          /\ Commit(c, "settings")

(* main: list_available_versions(ctx.manifest); sys.exit(0). *)
CtxListVersions(e) ==
    /\ \/ ctxPc = "settings"
       \/ ctxPc = "start" /\ ctxArgs.no_self_update
    /\ ctxArgs.listversions
    /\ \E c \in {manifest(CtxFields, e)} :
          /\ lastRead' = ReadRecord("manifest", c, e)
          /\ Commit(c, "exited")

(* main: ctx.finalise_settings() is called. *)
CtxFinaliseSettings ==
    /\ \/ ctxPc = "settings"
       \/ ctxPc = "start" /\ ctxArgs.no_self_update
    /\ ~ctxArgs.listversions
    /\ ctxPc' = Head(FinaliseOrder)
    /\ UNCHANGED <<ctxArgs, ctxPlatform, ctxManifest, ctxBuild, ctxDestdir,
                   resolved, lastRead, procVars, sudoVars, mainVars, monVars,
                   fnVars>>

(* Context.finalise_settings: its next property access. *)
FinaliseRead(e) ==
    /\ ctxPc \in SettingNames
    /\ \E c \in {ReadProperty(ctxPc, CtxFields, e, ctxArgs)} :
          /\ lastRead' = ReadRecord(ctxPc, c, e)
          /\ Commit(c, AfterRead(ctxPc))

(* A later step of main reads a setting (ctx.destdir, ctx.build, ...). *)
ReadSetting(s, e) ==
    /\ ctxPc = "ready"
    /\ \E c \in {ReadProperty(s, CtxFields, e, ctxArgs)} :
          /\ lastRead' = ReadRecord(s, c, e)
          /\ Commit(c, "ready")

NextContext ==
    \/ \E e \in CtxEnvs("manifest") : SelfUpdateReadsManifest(e)
    \/ \E e \in CtxEnvs("manifest") : CtxListVersions(e)
    \/ CtxFinaliseSettings
    \/ \E e \in CtxEnvs(ctxPc) : FinaliseRead(e)
    \/ \E s \in SettingNames : \E e \in CtxEnvs(s) : ReadSetting(s, e)

(***************************************************************************)
(* Version: parsing and comparison                                         *)
(***************************************************************************)

MaxComponents == 2

(* The dot-separated pieces of a version string: numerals, and a piece     *)
(* int() rejects.                                                          *)
Tokens == {"2", "10", "x"}

(* int(comp), where it succeeds. *)
IntOf == ("2" :> 2) @@ ("10" :> 10)

(* Version strings, as verstr.split('.'). *)
VersionStrings == UNION {[1..n -> Tokens] : n \in 1..MaxComponents}

(* Version.__init__: the integer components up to the first piece that is  *)
(* not an integer.                                                         *)
RECURSIVE Version(_)
Version(verstr) ==
    IF verstr = <<>> THEN <<>>
    ELSE IF Head(verstr) \notin DOMAIN IntOf THEN <<>>
    ELSE <<IntOf[Head(verstr)]>> \o Version(Tail(verstr))

(* Three version strings are given. *)
VersionInit ==
    /\ fnIn \in {<<a, b, c>> : a \in VersionStrings, b \in VersionStrings,
                               c \in VersionStrings}
    /\ fnOut = None

(* The three Version objects are built and compared with < and ==. *)
CompareVersions ==
    /\ fnIn # None
    /\ fnOut = None
    /\ fnOut' = Some([comps |-> [i \in 1..3 |-> Version(fnIn[i])],
                      lt |-> [i \in 1..3 |-> [j \in 1..3 |->
                                VersionLt(Version(fnIn[i]),
                                          Version(fnIn[j]))]],
                      eq |-> [i \in 1..3 |-> [j \in 1..3 |->
                                VersionEq(Version(fnIn[i]),
                                          Version(fnIn[j]))]]])
    /\ UNCHANGED <<fnIn, procVars, sudoVars, mainVars, monVars, ctxVars>>

NextVersion == CompareVersions

(***************************************************************************)
(* patch_file                                                              *)
(***************************************************************************)

MaxFileLines == 3
MaxContentLines == 2

(* The text of a line, without its newline: empty, the marker, the marker  *)
(* indented, another line.                                                 *)
LineTexts == {"", "# FSL Setup", "  # FSL Setup", "export A"}

(* str.strip() *)
strip(l) == IF l = "  # FSL Setup" THEN "# FSL Setup" ELSE l

(* The bytes of a file, as the pieces between its newline characters (a    *)
(* file that ends with a newline has an empty last piece; the empty file   *)
(* is one empty piece).                                                    *)
FileBytes == UNION {[1..n -> LineTexts] : n \in 1..MaxFileLines}

(* A file: absent, or its bytes. *)
Files == {None} \cup {Some(b) : b \in FileBytes}

(* content.split('\n') *)
Contents == UNION {[1..n -> LineTexts] : n \in 1..MaxContentLines}

(* f.readlines(): the lines of the file; there is no line after a final    *)
(* newline.                                                                *)
readlines(bytes) ==
    IF bytes[Len(bytes)] = "" THEN SubSeq(bytes, 1, Len(bytes) - 1)
    ELSE bytes

(* list.index: the position of the first line equal to searchline, 0 when  *)
(* there is none (ValueError).                                             *)
index(lines, searchline) ==
    IF \E i \in 1..Len(lines) : lines[i] = searchline
    THEN CHOOSE i \in 1..Len(lines) :
            /\ lines[i] = searchline
            /\ \A j \in 1..(i - 1) : lines[j] # searchline
    ELSE 0

(* '\n'.join(lines), as the pieces between the newlines of the result. *)
join(lines) == IF lines = <<>> THEN <<"">> ELSE lines

(* The lines patch_file reads: none for a missing file, else the lines of  *)
(* the file, stripped.                                                     *)
StrippedLines(file) ==
    IF file = None THEN <<>>
    ELSE [i \in 1..Len(readlines(file[1])) |-> strip(readlines(file[1])[i])]

(* patch_file appending in every case. *)
patch_lines_append(lines, idx, numlines, content) ==
    lines \o <<"">> \o content

(* patch_file: the block replaced at idx, or appended after an empty line. *)
patch_lines(lines, idx, numlines, content) ==
    IF idx # 0
    THEN SubSeq(lines, 1, idx - 1) \o content
         \o (IF idx + numlines <= Len(lines)
             THEN SubSeq(lines, idx + numlines, Len(lines)) ELSE <<>>)
    ELSE lines \o <<"">> \o content

(* patch_file(filename, searchline, numlines, content): the file after     *)
(* the call.                                                               *)
patch_file(file, searchline, numlines, content) ==
    Some(join(patch_lines(StrippedLines(file),
                          index(StrippedLines(file), searchline),
                          numlines, content)))

(* A file and the arguments of patch_file are given. *)
PatchInit ==
    /\ fnIn \in [file       : Files,
                 searchline : {"# FSL Setup", "  # FSL Setup"},
                 numlines   : 1..MaxContentLines,
                 content    : Contents]
    /\ fnOut = <<>>

(* patch_file is called on the file as the previous call left it; fnOut    *)
(* holds the file after each call.                                         *)
ApplyPatchFile ==
    /\ fnIn # None
    /\ Len(fnOut) < 2
    /\ fnOut' = Append(fnOut,
                       patch_file(IF fnOut = <<>> THEN fnIn.file
                                  ELSE fnOut[Len(fnOut)],
                                  fnIn.searchline, fnIn.numlines,
                                  fnIn.content))
    /\ UNCHANGED <<fnIn, procVars, sudoVars, mainVars, monVars, ctxVars>>

NextPatch == ApplyPatchFile

(***************************************************************************)
(* CUDA selection                                                          *)
(***************************************************************************)

(* CUDA versions, as (major, minor). *)
CudaVersions == {<<10, 2>>, <<11, 0>>, <<11, 8>>, <<12, 4>>}

(* The user's CUDA preference: none given, "none", or a version X.Y. *)
CudaRequests ==
    {[kind |-> "auto", version |-> <<>>], [kind |-> "none", version |-> <<>>]}
    \cup {[kind |-> "version", version |-> v] : v \in CudaVersions}

(* The constraint on the cuda-version package for the CUDA version v:      *)
(* at least v, below the next major version.                               *)
CudaConstraint(v) == [ge |-> v, lt |-> v[1] + 1]

(* The CUDA version in effect: the requested one if any, else the detected *)
(* one (syscuda, None when the probe finds nothing); None for "none".      *)
EffectiveCuda(syscuda, usrcuda) ==
    IF usrcuda.kind = "none" THEN None
    ELSE IF usrcuda.kind = "version" THEN Some(usrcuda.version)
    ELSE syscuda

(* add_cuda_packages preferring the detected version to the requested one. *)
add_cuda_packages_detected_first(syscuda, usrcuda, cuda_enabled) ==
    IF ~cuda_enabled \/ usrcuda.kind = "none" THEN None
    ELSE IF syscuda # None THEN Some(CudaConstraint(syscuda[1]))
    ELSE IF usrcuda.kind = "version"
    THEN Some(CudaConstraint(usrcuda.version))
    ELSE None

(* add_cuda_packages: the constraint added for a build, None when none is  *)
(* added; only builds flagged cuda_enabled get one.                        *)
add_cuda_packages(syscuda, usrcuda, cuda_enabled) ==
    IF ~cuda_enabled \/ EffectiveCuda(syscuda, usrcuda) = None THEN None
    ELSE Some(CudaConstraint(EffectiveCuda(syscuda, usrcuda)[1]))

(* A detected version, a request and a build flag are given. *)
CudaInit ==
    /\ fnIn \in [syscuda      : {None} \cup {Some(v) : v \in CudaVersions},
                 usrcuda      : CudaRequests,
                 cuda_enabled : BOOLEAN]
    /\ fnOut = None

ApplyAddCudaPackages ==
    /\ fnIn # None
    /\ fnOut = None
    /\ fnOut' = Some(add_cuda_packages(fnIn.syscuda, fnIn.usrcuda,
                                       fnIn.cuda_enabled))
    /\ UNCHANGED <<fnIn, procVars, sudoVars, mainVars, monVars, ctxVars>>

NextCuda == ApplyAddCudaPackages

(***************************************************************************)
(* Process.check_output and Process.check_call                             *)
(***************************************************************************)

(* The position of the caller and the output it has collected. *)
CallState(p, out) == Some([pc |-> p, stdout |-> out])

(* "proc = Process(cmd, ...)" in check_output or check_call: the child and *)
(* both readers are started; the caller is about to call proc.wait().      *)
CallInit ==
    /\ ProcessInit
    /\ fnIn \in [fn : {"check_output", "check_call"}]
    /\ fnOut = CallState("wait", <<>>)

(* The steps of the caller leave the child, the pipes and the readers      *)
(* alone.                                                                  *)
callFrame == <<toWrite, written, pipe, streamOpen, childState, exitStatus,
               threadAlive, fnIn, sudoVars, mainVars, monVars, ctxVars>>

(* Process.wait going straight to the test of the return code. *)
AfterPopenWaitNoJoin == "check"

(* Process.wait: after self.popen.wait() the readers are joined. *)
AfterPopenWait == "join_stdout"

(* Process.wait: self.popen.wait() returns once the child has exited. *)
PopenWait ==
    /\ fnOut # None
    /\ fnOut[1].pc = "wait"
    /\ childState = "exited"
    /\ popenReturncode' = Some(exitStatus)
    /\ slowDrain' = \E s \in Streams : pipe[s] # <<>>
    /\ fnOut' = CallState(AfterPopenWait, fnOut[1].stdout)
    /\ UNCHANGED <<queue, observed, callFrame>>

(* Process.wait: self.stdout_thread.join(), self.stderr_thread.join(). *)
JoinThread(s) ==
    /\ fnOut # None
    /\ fnOut[1].pc = (IF s = "stdout" THEN "join_stdout" ELSE "join_stderr")
    /\ ~threadAlive[s]
    /\ fnOut' = CallState(IF s = "stdout" THEN "join_stderr" ELSE "check",
                          fnOut[1].stdout)
    /\ UNCHANGED <<popenReturncode, slowDrain, queue, observed, callFrame>>

(* "if proc.returncode != 0: raise RuntimeError"; check_call returns,      *)
(* check_output goes on to collect the output.                             *)
CheckReturncode ==
    /\ fnOut # None
    /\ fnOut[1].pc = "check"
    /\ observed' = returncode
    /\ fnOut' = CallState(IF returncode # Some(0) THEN "raised"
                          ELSE IF fnIn.fn = "check_call" THEN "returned"
                          ELSE "drain",
                          fnOut[1].stdout)
    /\ UNCHANGED <<popenReturncode, slowDrain, queue, callFrame>>

(* check_output: "stdout += proc.stdoutq.get_nowait()" until queue.Empty,  *)
(* then "return stdout".                                                   *)
DrainQueue ==
    /\ fnOut # None
    /\ fnOut[1].pc = "drain"
    /\ IF queue["stdout"] # <<>>
       THEN /\ fnOut' = CallState("drain",
                          Append(fnOut[1].stdout, Head(queue["stdout"])))
            /\ queue' = [queue EXCEPT !["stdout"] = Tail(@)]
       ELSE /\ fnOut' = CallState("returned", fnOut[1].stdout)
            /\ UNCHANGED queue
    /\ UNCHANGED <<popenReturncode, slowDrain, observed, callFrame>>

NextCall ==
    \/ PopenWait
    \/ \E s \in Streams : JoinThread(s)
    \/ CheckReturncode
    \/ DrainQueue
    \/ \E s \in Streams : ChildWrite(s)
    \/ \E s \in Streams : ChildClose(s)
    \/ ChildExit
    \/ \E s \in Streams : forward_stream(s)

(***************************************************************************)
(* Context.devmanifest                                                     *)
(***************************************************************************)

MaxDevReleases == 4

(* The dates of the development releases, as day numbers (a later day is a *)
(* greater number, as the date strings YYYYMMDD compare).                  *)
DevDates == 1..MaxDevReleases

(* devreleases.txt: one development manifest per line, in any order, here  *)
(* each named by its date.                                                 *)
DevFiles ==
    UNION {{f \in [1..n -> DevDates] :
              \A i, j \in 1..n : i # j => f[i] # f[j]} : n \in 0..MaxDevReleases}

(* What the user types at "Which release would you like to install? [1]:". *)
DevResponses == {"", "1", "2", "0", "x"}

(* "if selection == '': selection = '1'", then int(selection) - 1 as a     *)
(* position counted from 1; 0 stands for a response that is no number.     *)
DevSelection(r) ==
    CASE r = ""  -> Some(1)
      [] r = "1" -> Some(1)
      [] r = "2" -> Some(2)
      [] r = "0" -> Some(0)
      [] OTHER   -> None

(* sorted(devreleases, key=lambda r: r[2]): by date, ascending. *)
sorted(f) ==
    CHOOSE s \in [1..Len(f) -> DevDates] :
        /\ {s[i] : i \in 1..Len(f)} = {f[i] : i \in 1..Len(f)}
        /\ \A i \in 1..(Len(f) - 1) : s[i] < s[i + 1]

(* The state of one read of Context.devmanifest: where it is, the list it  *)
(* shows, the accepted response and the manifest it returns.               *)
DevState(p, l, r, m) ==
    Some([pc |-> p, devreleases |-> l, response |-> r, devmanifest |-> m])

(* parse_args sets devrelease when --devlatest is given. *)
DevInit ==
    /\ fnIn \in [devrelease : BOOLEAN, devlatest : BOOLEAN, file : DevFiles]
    /\ fnIn.devlatest => fnIn.devrelease
    /\ fnOut = DevState("start", <<>>, None, None)

(* Context.devmanifest up to the prompt: None without --devrelease or for  *)
(* an empty list; with --devlatest the last entry of the sorted list; else *)
(* the sorted list is printed, numbered from 1.                            *)
DevRead ==
    /\ fnOut # None
    /\ fnOut[1].pc = "start"
    /\ fnOut' =
          IF ~fnIn.devrelease \/ fnIn.file = <<>>
          THEN DevState("returned", <<>>, None, None)
          ELSE IF fnIn.devlatest
          THEN DevState("returned", sorted(fnIn.file), None,
                        Some(sorted(fnIn.file)[Len(fnIn.file)]))
          ELSE DevState("prompt", sorted(fnIn.file), None, None)
    /\ UNCHANGED <<fnIn, procVars, sudoVars, mainVars, monVars, ctxVars>>

(* The prompt loop: a response that is no number or is out of range is     *)
(* asked again, a valid one selects the entry of that number.              *)
DevPrompt(r) ==
    /\ fnOut # None
    /\ fnOut[1].pc = "prompt"
    /\ fnOut' =
          IF /\ DevSelection(r) # None
             /\ DevSelection(r)[1] - 1 >= 0
             /\ DevSelection(r)[1] - 1 < Len(fnOut[1].devreleases)
          THEN DevState("returned", fnOut[1].devreleases, Some(r),
                        Some(fnOut[1].devreleases[DevSelection(r)[1]]))
          ELSE fnOut
    /\ UNCHANGED <<fnIn, procVars, sudoVars, mainVars, monVars, ctxVars>>

NextDev ==
    \/ DevRead
    \/ \E r \in DevResponses : DevPrompt(r)

(***************************************************************************)
(* createFSLWrapper and removeFSLWrapper                                   *)
(***************************************************************************)

MaxTargets == 2

(* File names: a tool name, with the suffix "_gui" or without it. *)
ToolNames == [base : {"fsl", "Flirt"}, gui : BOOLEAN]

(* name.removesuffix('_gui') and name + '_gui' *)
removesuffix(n) == [n EXCEPT !.gui = FALSE]
WithGui(n) == [n EXCEPT !.gui = TRUE]

(* An argument after target.split('='): "target" or "target=wrapper". *)
TargetArgs == {<<t>> : t \in ToolNames} \cup (ToolNames \X ToolNames)

(* "if len(target) == 2: target, wrapper = target                          *)
(*  else: target, wrapper = target[0], target[0]"                          *)
WrapperOf(arg) == IF Len(arg) = 2 THEN arg[2] ELSE arg[1]

(* The executables in $FSLDIR/bin: all of them, none, or the tools without *)
(* their _gui variants.                                                    *)
BinDirs == {ToolNames, {}, {n \in ToolNames : ~n.gui}}

(* create_wrapper: the wrappers in the destination directory after the     *)
(* call for one argument.                                                  *)
create_wrapper(arg, bin, wrappers, plat, force) ==
    LET target  == arg[1]
        wrapper == WrapperOf(arg)
        gui     == plat = "linux" /\ wrapper.gui
        target1 == removesuffix(target)
        target2 == IF WithGui(target1) \in bin THEN WithGui(target1)
                   ELSE target1
        pairs   == IF ~gui THEN {<<target, wrapper>>}
                   ELSE {<<target1, removesuffix(wrapper)>>,
                         <<target2, WithGui(removesuffix(wrapper))>>}
    IN  wrappers \cup
        {p[2] : p \in {q \in pairs :
                          /\ force \/ q[1] \in bin
                          /\ force \/ q[2] \notin wrappers}}

(* removeFSLWrapper removing the named wrapper only. *)
remove_wrapper_named(arg, wrappers, plat) ==
    wrappers \ {WrapperOf(arg)}

(* removeFSLWrapper.main, the body of the loop: the wrappers left after    *)
(* one argument.                                                           *)
remove_wrapper(arg, wrappers, plat) ==
    IF plat = "linux" /\ WrapperOf(arg).gui
    THEN wrappers \ {removesuffix(WrapperOf(arg)),
                     WithGui(removesuffix(WrapperOf(arg)))}
    ELSE wrappers \ {WrapperOf(arg)}

(* "for target in targets" of both scripts, from argument i on. *)
RECURSIVE CreateAll(_, _, _)
CreateAll(i, in, wrappers) ==
    IF i > Len(in.targets) THEN wrappers
    ELSE CreateAll(i + 1, in,
                   create_wrapper(in.targets[i], in.bin, wrappers,
                                  in.platform, in.force))

RECURSIVE RemoveAll(_, _, _)
RemoveAll(i, in, wrappers) ==
    IF i > Len(in.targets) THEN wrappers
    ELSE RemoveAll(i + 1, in,
                   remove_wrapper(in.targets[i], wrappers, in.platform))

(* The arguments, the platform, --force, whether                           *)
(* FSL_CREATE_WRAPPER_SCRIPTS is set, the executables and the wrappers     *)
(* that exist; FSLDIR and PREFIX are set, PREFIX within FSLDIR.            *)
WrapperInit ==
    /\ fnIn \in [targets  : UNION {[1..n -> TargetArgs] : n \in 1..MaxTargets},
                 platform : {"linux", "darwin"},
                 force    : BOOLEAN,
                 enabled  : BOOLEAN,
                 bin      : BinDirs,
                 wrappers : {{}, {[base |-> "Flirt", gui |-> FALSE]}}]
    /\ fnOut = Some([pc |-> "create", wrappers |-> fnIn.wrappers])

(* createFSLWrapper.main *)
RunCreateFSLWrapper ==
    /\ fnOut # None
    /\ fnOut[1].pc = "create"
    /\ fnOut' = Some([pc |-> "remove",
                      wrappers |->
                          IF ~fnIn.force /\ ~fnIn.enabled
                          THEN fnOut[1].wrappers
                          ELSE CreateAll(1, fnIn, fnOut[1].wrappers)])
    /\ UNCHANGED <<fnIn, procVars, sudoVars, mainVars, monVars, ctxVars>>

(* removeFSLWrapper.main, called with the same targets. *)
RunRemoveFSLWrapper ==
    /\ fnOut # None
    /\ fnOut[1].pc = "remove"
    /\ fnOut' = Some([pc |-> "done",
                      wrappers |-> RemoveAll(1, fnIn, fnOut[1].wrappers)])
    /\ UNCHANGED <<fnIn, procVars, sudoVars, mainVars, monVars, ctxVars>>

NextWrapper ==
    \/ RunCreateFSLWrapper
    \/ RunRemoveFSLWrapper

NextProcess ==
    \/ \E s \in Streams : ChildWrite(s)
    \/ \E s \in Streams : ChildClose(s)
    \/ ChildExit
    \/ \E s \in Streams : forward_stream(s)
    \/ Poll
    \/ GetReturncode

(* The state of a part of the program that a specification leaves alone. *)
ProcessIdle ==
    /\ toWrite = [s \in Streams |-> 0]
    /\ written = [s \in Streams |-> 0]
    /\ pipe = [s \in Streams |-> <<>>]
    /\ streamOpen = [s \in Streams |-> FALSE]
    /\ childState = "exited"
    /\ exitStatus = 0
    /\ popenReturncode = None
    /\ threadAlive = [s \in Streams |-> FALSE]
    /\ queue = [s \in Streams |-> <<>>]
    /\ observed = None
    /\ slowDrain = FALSE

SudoIdle ==
    /\ uid = 0
    /\ needAdmin = None
    /\ adminPassword = None
    /\ promptLog = <<>>
    /\ credReads = 0
    /\ disk = {}
    /\ nextFile = 0
    /\ procs = <<>>
    /\ sudoPc = "idle"

MainIdle ==
    /\ pc = "idle"
    /\ args = [no_self_update |-> FALSE, no_checksum |-> FALSE,
               workdir |-> FALSE, overwrite |-> FALSE,
               listversions |-> FALSE]
    /\ origArgs = args
    /\ image = "current"
    /\ relaunches = 0
    /\ suCall = None
    /\ downloads = {}
    /\ warnings = {}
    /\ dest = "absent"
    /\ scratch = [i \in ScratchSlots |-> "absent"]
    /\ oldDestdir = None
    /\ failedStep = None
    /\ configured = FALSE
    /\ exitCode = None
    /\ mismatched = {}
    /\ printed = <<>>
    /\ markerWritten = FALSE

MonitorIdle ==
    /\ cmds = 0
    /\ cmdIndex = 0
    /\ monPc = "idle"
    /\ rcLog = <<>>
    /\ total = None
    /\ nlines = None
    /\ linesBefore = 0

ContextIdle ==
    /\ ctxArgs = None
    /\ ctxPlatform = None
    /\ ctxManifest = None
    /\ ctxBuild = None
    /\ ctxDestdir = None
    /\ resolved = <<>>
    /\ lastRead = None
    /\ ctxPc = "idle"

FnIdle ==
    /\ fnIn = None
    /\ fnOut = None

OthersIdle == MonitorIdle /\ ContextIdle /\ FnIdle

(* One Process: the child, the two reader threads and a caller. *)
InitProcess == ProcessInit /\ SudoIdle /\ MainIdle /\ OthersIdle
SpecProcess == InitProcess /\ [][NextProcess]_vars

(* Settings resolution and the commands launched through Process.popen. *)
InitSudo == SudoInit /\ ProcessIdle /\ MainIdle /\ OthersIdle
SpecSudo == InitSudo /\ [][NextSudo]_vars

(* One invocation of the installer by the user. *)
Init == MainInit /\ ProcessIdle /\ SudoIdle /\ OthersIdle
Next == NextMain
Spec == Init /\ [][Next]_vars

(* One call of Process.monitor_progress with a list of commands. *)
InitMonitor ==
    /\ MonitorInit /\ ProcessIdle /\ SudoIdle /\ MainIdle
    /\ ContextIdle /\ FnIdle
SpecMonitor == InitMonitor /\ [][NextMonitor]_vars

(* handle_error applied to any state it can find. *)
InitHandler ==
    /\ HandlerInit /\ ProcessIdle /\ SudoIdle /\ MainIdle
    /\ MonitorIdle /\ ContextIdle
SpecHandler == InitHandler /\ [][NextHandler]_vars

(* The Context of one run of main and the reads main makes of it. *)
InitContext ==
    /\ ContextInit /\ ProcessIdle /\ SudoIdle /\ MainIdle
    /\ MonitorIdle /\ FnIdle
SpecContext == InitContext /\ [][NextContext]_vars

(* Version objects built from strings and compared. *)
InitVersion ==
    /\ VersionInit /\ ProcessIdle /\ SudoIdle /\ MainIdle
    /\ MonitorIdle /\ ContextIdle
SpecVersion == InitVersion /\ [][NextVersion]_vars

(* patch_file called twice with the same arguments. *)
InitPatch ==
    /\ PatchInit /\ ProcessIdle /\ SudoIdle /\ MainIdle
    /\ MonitorIdle /\ ContextIdle
SpecPatch == InitPatch /\ [][NextPatch]_vars

(* The CUDA constraint chosen for a build. *)
InitCuda ==
    /\ CudaInit /\ ProcessIdle /\ SudoIdle /\ MainIdle
    /\ MonitorIdle /\ ContextIdle
SpecCuda == InitCuda /\ [][NextCuda]_vars

(* monitor_progress called with one command (a string). *)
InitMonitorOne == InitMonitor /\ cmds = 1

(* monitor_progress with its caller's thread running: queue.get returns    *)
(* after at most its timeout and poll does not block, so each step of the  *)
(* loop is taken once it is reached.                                       *)
SpecMonitorFair ==
    /\ InitMonitorOne /\ [][NextMonitor]_vars
    /\ WF_vars(WhileReturncodeIsNone)
    /\ WF_vars(QueueGet)
    /\ WF_vars(MonitorPoll)

(* A command run by check_output or check_call. *)
InitCall ==
    /\ CallInit /\ SudoIdle /\ MainIdle /\ MonitorIdle /\ ContextIdle
SpecCall == InitCall /\ [][NextCall]_vars

(* A command run to its end by a waiting caller (check_output, check_call) *)
(* or by monitor_progress with one command.  The operating system runs the *)
(* child and schedules both reader threads and the calling thread, so      *)
(* every step that stays possible is eventually taken.                     *)
InitRun == InitCall \/ InitMonitorOne
NextRun == NextCall \/ NextMonitor
SpecRunFair ==
    /\ InitRun /\ [][NextRun]_vars
    /\ \A s \in Streams : WF_vars(ChildWrite(s))
    /\ \A s \in Streams : WF_vars(ChildClose(s))
    /\ WF_vars(ChildExit)
    /\ \A s \in Streams : WF_vars(forward_stream(s))
    /\ WF_vars(PopenWait)
    /\ \A s \in Streams : WF_vars(JoinThread(s))
    /\ WF_vars(CheckReturncode)
    /\ WF_vars(DrainQueue)
    /\ WF_vars(WhileReturncodeIsNone)
    /\ WF_vars(QueueGet)
    /\ WF_vars(MonitorPoll)

(* One read of Context.devmanifest. *)
InitDev ==
    /\ DevInit /\ ProcessIdle /\ SudoIdle /\ MainIdle
    /\ MonitorIdle /\ ContextIdle
SpecDev == InitDev /\ [][NextDev]_vars

(* createFSLWrapper, then removeFSLWrapper with the same targets. *)
InitWrapper ==
    /\ WrapperInit /\ ProcessIdle /\ SudoIdle /\ MainIdle
    /\ MonitorIdle /\ ContextIdle
SpecWrapper == InitWrapper /\ [][NextWrapper]_vars

(***************************************************************************)
(* Properties                                                              *)
(***************************************************************************)

MovedAside ==
    oldDestdir # None /\ failedStep # Some("overwrite_destdir")

StepsAfterMoveAside ==
    {"download_fsl_environment", "download_miniconda", "install_miniconda",
     "install_fsl", "finalise_installation", "post_install_cleanup"}

(* C2: when the run moved an existing destination aside and a later step   *)
(* (environment download or checksum, bootstrap download, bootstrap        *)
(* install, package install, finalise, cleanup) failed, the prior          *)
(* installation is at the destination path when the process has exited.    *)
C2_FailedUpgradeKeepsPrior ==
    (/\ pc = "exited"
     /\ MovedAside
     /\ \E st \in StepsAfterMoveAside : failedStep = Some(st))
        => dest = "prior"

HandledSteps ==
    {"download_miniconda", "install_miniconda", "install_fsl",
     "finalise_installation", "post_install_cleanup"}

C4_FinaliseFailureIsWarning ==
    (/\ pc = "exited"
     /\ failedStep \in {Some("finalise_installation"),
                        Some("post_install_cleanup")})
        => /\ exitCode = Some(0)
           /\ configured
           /\ dest \in {"fsl", "marked", "finalised"}

(* C5: at most one re-launch happens per user invocation; the re-launched  *)
(* installer runs with the user's arguments plus --no_self_update, and a   *)
(* run that has the flag never calls self_update.                          *)
C5_NoUpdateLoop ==
    /\ relaunches <= 1
    /\ relaunches = 1 =>
          /\ args = [origArgs EXCEPT !.no_self_update = TRUE]
          /\ image = "new"
          /\ suCall # None
    /\ origArgs.no_self_update => suCall = None /\ relaunches = 0

C5_Witness ==
    /\ relaunches = 1
    /\ suCall[1].latestver = <<2>>
    /\ pc = "exited"
    /\ exitCode = Some(0)

ChecksumWarning == "New installer file does not match expected checksum"

(* C6: when the manifest's installer version is strictly greater than the  *)
(* running one and the new installer was downloaded, it is re-launched     *)
(* iff checksums are disabled or the file's SHA-256 matches; on a mismatch *)
(* with checksums enabled a warning is printed, nothing is re-launched and *)
(* the run goes on with the current installer.                             *)
C6_RelaunchIffChecksumOk ==
    (/\ suCall # None
     /\ VersionLt(ThisVersion, suCall[1].latestver)
     /\ suCall[1].downloadOk)
        => /\ (relaunches = 1) <=> (~suCall[1].checksum \/ suCall[1].shaOk)
           /\ (suCall[1].checksum /\ ~suCall[1].shaOk) =>
                 /\ ChecksumWarning \in warnings
                 /\ relaunches = 0
                 /\ image = "current"
                 /\ pc # "start"
                 /\ failedStep # Some("self_update")

C6_Witness ==
    /\ suCall # None
    /\ VersionLt(ThisVersion, suCall[1].latestver)
    /\ suCall[1].downloadOk
    /\ suCall[1].checksum /\ ~suCall[1].shaOk
    /\ pc = "exited"
    /\ exitCode = Some(0)

(* C7: when the manifest's installer version is not strictly greater than  *)
(* the running one, self_update downloads nothing, re-launches nothing and *)
(* returns to main.                                                        *)
C7_NoUpdateWhenNotNewer ==
    (/\ suCall # None
     /\ ~VersionLt(ThisVersion, suCall[1].latestver))
        => /\ "installer" \notin downloads
           /\ relaunches = 0
           /\ image = "current"
           /\ pc # "start"
           /\ failedStep # Some("self_update")
           /\ warnings = {}

C7_Witness ==
    /\ suCall # None
    /\ suCall[1].latestver = ThisVersion
    /\ pc = "settings"

(* C8: once an elevated invocation has finished, its wrapper script is no  *)
(* longer on disk.                                                         *)
C8_WrapperGoneAfterInvocation ==
    \A i \in 1..Len(procs) :
        (procs[i].proc.elevated /\ procs[i].proc.state = "finished")
            => procs[i].proc.wrapper \notin disk

PopenRuns == {i \in 1..Len(procs) : procs[i].by = "popen"}

(* C9: Process.popen elevates exactly when admin was requested and the     *)
(* user is not root; then sudo is given a wrapper script that exports      *)
(* every append_env variable before the command line, and the cached       *)
(* password on its standard input; otherwise the command itself is run     *)
(* and the password is not read.                                           *)
C9_ElevationExactlyWhenNeeded ==
    /\ \A i \in PopenRuns :
          LET p == procs[i].proc
              req == procs[i].req
          IN  /\ p.elevated <=> (req.admin /\ uid # 0)
              /\ p.elevated =>
                    /\ p.argv = <<"sudo", "-S", "-k", p.wrapper>>
                    /\ p.wrapper # 0
                    /\ \E c \in 1..Len(p.script) :
                          /\ p.script[c] = <<"run", req.cmd>>
                          /\ \A k \in 1..Len(req.append_env) :
                                \E j \in 1..(c - 1) :
                                    p.script[j] = <<"export",
                                                    req.append_env[k][1],
                                                    req.append_env[k][2]>>
                    /\ adminPassword # None
                    /\ p.stdin = adminPassword
                    /\ (p.state = "finished" /\ p.rc = Some(0)) =>
                          \A k \in 1..Len(req.append_env) :
                              req.append_env[k] \in p.cmdEnv
              /\ ~p.elevated =>
                    /\ p.argv = req.cmd
                    /\ p.wrapper = 0
                    /\ p.stdin = None
    /\ credReads = Cardinality({i \in PopenRuns : procs[i].proc.elevated})

C9_Witness ==
    /\ \E i \in PopenRuns :
          /\ procs[i].proc.elevated
          /\ Len(procs[i].req.append_env) = 2
          /\ procs[i].proc.state = "finished"
          /\ procs[i].proc.rc = Some(0)
    /\ \E i \in PopenRuns : ~procs[i].proc.elevated /\ ~procs[i].req.admin

ValidationRuns == SelectSeq(procs, LAMBDA e : e.by = "get_admin_password")

(* C10: the password is prompted for at most 3 times; every entry is       *)
(* validated by a finished "sudo true" run given that entry; only the      *)
(* last run can have exit status 0; on success the entry of that run is    *)
(* the cached password; after 3 failures nothing is cached.                *)
C10_AtMostThreePrompts ==
    LET n == Len(promptLog)
        v == ValidationRuns
    IN  /\ n <= 3
        /\ Len(v) = n
        /\ \A i \in 1..n :
              /\ v[i].proc.elevated
              /\ v[i].proc.state = "finished"
              /\ v[i].proc.stdin = Some(promptLog[i])
              /\ \E c \in 1..Len(v[i].proc.script) :
                    v[i].proc.script[c] = <<"run", <<"true">> >>
              /\ i < n => v[i].proc.rc # Some(0)
        /\ adminPassword # None =>
              /\ n >= 1
              /\ v[n].proc.rc = Some(0)
              /\ adminPassword = Some(promptLog[n])
        /\ (sudoPc = "ready" /\ needAdmin = Some(TRUE)) => adminPassword # None
        /\ sudoPc = "failed" =>
              /\ n = 3
              /\ v[n].proc.rc # Some(0)
              /\ adminPassword = None

C10_Witness ==
    /\ sudoPc = "ready"
    /\ Len(promptLog) = 3
    /\ adminPassword = Some(RealPassword)

(* Every word written to a wrapper script. *)
ScriptWords(script) ==
    UNION { IF script[l][1] = "run"
            THEN {script[l][2][k] : k \in 1..Len(script[l][2])}
            ELSE {script[l][k] : k \in 1..Len(script[l])}
            : l \in 1..Len(script) }

(* C11: the cached admin password changes at most once, from unset to a    *)
(* password that a "sudo true" run accepted, and never afterwards; all     *)
(* prompts of a run are made by one request; nothing is prompted or cached *)
(* when administrator privileges are not needed; and no wrapper script     *)
(* written to disk contains an entered password (it only goes to sudo's    *)
(* standard input).                                                        *)
C11_CredentialSingleWriter ==
    /\ [](needAdmin = Some(FALSE) =>
             promptLog = <<>> /\ adminPassword = None)
    /\ [](\A i \in 1..Len(procs) :
             \A w \in 1..Len(promptLog) :
                 promptLog[w] \notin ScriptWords(procs[i].proc.script))
    /\ [][adminPassword' # adminPassword =>
             /\ adminPassword = None
             /\ promptLog = <<>>
             /\ promptLog' # <<>>
             /\ adminPassword' = Some(promptLog'[Len(promptLog')])
             /\ adminPassword' = Some(RealPassword)]_vars
    /\ [][promptLog' # promptLog => promptLog = <<>>]_vars

C11_Witness ==
    /\ adminPassword = Some(RealPassword)
    /\ Len(promptLog) = 2
    /\ credReads = MaxProcs
    /\ \A i \in PopenRuns : procs[i].proc.state = "finished"

(* The running command has exited and both its streams are drained. *)
ExitedAndDrained ==
    /\ childState = "exited"
    /\ \A s \in Streams : ~streamOpen[s] /\ pipe[s] = <<>> /\ ~threadAlive[s]

RanMinicondaInstaller ==
    \/ pc \in {"install_fsl", "install_env", "finalise", "cleanup",
              "configure"}
    \/ pc = "exited" /\ exitCode = Some(0)
    \/ failedStep \in {Some("install_miniconda"), Some("install_fsl"),
                       Some("finalise_installation"),
                       Some("post_install_cleanup"), Some("configure")}

(* The same for the conda commands of install_fsl. *)
RanPackageInstall ==
    \/ pc \in {"install_env", "finalise", "cleanup", "configure"}
    \/ pc = "exited" /\ exitCode = Some(0)
    \/ failedStep \in {Some("install_fsl"), Some("finalise_installation"),
                       Some("post_install_cleanup"), Some("configure")}

(* C13: with checksums enabled, once the downloaded environment file or    *)
(* bootstrap installer has a SHA-256 other than the manifest's, the run    *)
(* has ended at that download step with exit status 1 and neither the     *)
(* bootstrap installer nor a package install has been executed; with       *)
(* --no_checksum a downloaded file never fails its download step.          *)
C13_ChecksumMismatchAborts ==
    /\ ~args.no_checksum =>
          /\ "environment" \in mismatched =>
                failedStep = Some("download_fsl_environment")
          /\ "miniconda" \in mismatched =>
                failedStep = Some("download_miniconda")
          /\ mismatched # {} =>
                /\ pc = "exited"
                /\ exitCode = Some(1)
                /\ ~RanMinicondaInstaller
                /\ ~RanPackageInstall
                /\ dest \in {"absent", "prior"}
    /\ args.no_checksum =>
          /\ "environment" \in downloads =>
                failedStep # Some("download_fsl_environment")
          /\ "miniconda" \in downloads =>
                failedStep # Some("download_miniconda")

C13_Witness ==
    /\ ~args.no_checksum
    /\ "miniconda" \in mismatched
    /\ "environment" \in downloads
    /\ pc = "exited"
    /\ dest = "prior"

C16_UpdateFailureKeepsDestination ==
    (/\ fnOut # None
     /\ fnIn.update # None
     /\ fnIn.update # Some("")
     /\ (fnIn.d # "absent" \/ fnIn.old = None))
        => /\ fnOut[1].dest = fnIn.d
           /\ fnOut[1].scratch = fnIn.scr
           /\ fnOut[1].printed =
                 <<MsgError, MsgUpdateFailed, MsgFailed, MsgLogFile>>
           /\ fnOut[1].exit # 0

C16_Witness ==
    /\ fnOut # None
    /\ fnIn.update = Some("6.0.6")
    /\ fnIn.d = "partial"
    /\ fnIn.old = None
    /\ fnOut[1].dest = "partial"

(* The ways a run fails in the model: manifest download, download of the   *)
(* new installer, settings resolution (unknown version, unsupported        *)
(* platform, bad credentials), declined or failed overwrite, a download or *)
(* checksum, an external command of an install step, the configuration.    *)
FailureSteps ==
    {"download_manifest", "self_update", "finalise_settings",
     "overwrite_declined", "overwrite_destdir", "download_fsl_environment",
     "download_miniconda", "install_miniconda", "install_fsl",
     "finalise_installation", "post_install_cleanup", "configure"}

C18_MemoizeThenFreeze ==
    /\ [](lastRead # None =>
            (lastRead[1].before # None =>
                /\ lastRead[1].value = lastRead[1].before
                /\ ~lastRead[1].raised))
    /\ [](\A i, j \in 1..Len(resolved) :
            resolved[i] = resolved[j] => i = j)
    /\ [][/\ ctxPlatform # None => ctxPlatform' = ctxPlatform
          /\ ctxManifest # None => ctxManifest' = ctxManifest
          /\ ctxBuild # None => ctxBuild' = ctxBuild
          /\ ctxDestdir # None => ctxDestdir' = ctxDestdir
          /\ needAdmin # None => needAdmin' = needAdmin
          /\ adminPassword # None =>
                /\ adminPassword' = adminPassword
                /\ promptLog' = promptLog
                /\ procs' = procs]_vars

(* C18 witness: after finalise_settings the manifest is read while the     *)
(* URL serves a different manifest than the cached one, and the read       *)
(* returns the cached manifest; the six settings were resolved once each.  *)
C18_Witness ==
    /\ ctxPc = "ready"
    /\ Len(resolved) = 6
    /\ lastRead # None
    /\ lastRead[1].setting = "manifest"
    /\ lastRead[1].before # None
    /\ lastRead[1].fresh # None
    /\ lastRead[1].fresh # lastRead[1].before
    /\ lastRead[1].value = lastRead[1].before

(* A setting appears in the resolution log only after every setting that   *)
(* precedes it in `order`.                                                 *)
RespectsOrder(order) ==
    \A i \in 1..Len(resolved) : \A k \in 1..Len(order) :
        order[k] = resolved[i] =>
            \A k2 \in 1..(k - 1) : \E j \in 1..(i - 1) :
                resolved[j] = order[k2]

(* C19 as stated: settings are resolved in the order platform, manifest,   *)
(* build, destination, admin requirement, admin credential; no setting is  *)
(* resolved before all that precede it in this order.                      *)
C19_PlatformFirstOrder ==
    RespectsOrder(<<"platform", "manifest", "build", "destdir",
                    "need_admin", "admin_password">>)

(* C19 amended: settings are resolved in the order manifest, platform,     *)
(* build, destination, admin requirement, admin credential; no setting is  *)
(* resolved before all that precede it in this order.                      *)
C19_ManifestFirstOrder ==
    RespectsOrder(<<"manifest", "platform", "build", "destdir",
                    "need_admin", "admin_password">>)

(* C19 witness: finalise_settings has resolved all six settings. *)
C19_Witness ==
    /\ ctxPc = "ready"
    /\ adminPassword # None
    /\ \A s \in SettingNames : \E i \in 1..Len(resolved) : resolved[i] = s


(* a is a strict prefix of b. *)
StrictPrefix(a, b) ==
    /\ Len(a) < Len(b)
    /\ \A k \in 1..Len(a) : a[k] = b[k]

(* a precedes b in the numeric left-to-right order: at the first position  *)
(* where they differ a has the smaller number, or a is a strict prefix.    *)
NumericallyBefore(a, b) ==
    \/ StrictPrefix(a, b)
    \/ \E k \in 1..Len(a) :
          /\ k <= Len(b)
          /\ a[k] < b[k]
          /\ \A m \in 1..(k - 1) : a[m] = b[m]

(* C20: on the parsed component sequences of any three version strings,    *)
(* exactly one of a<b, a==b, b<a holds for every pair; a<b and b<c imply   *)
(* a<c; a<b holds exactly when a precedes b numerically left to right; and *)
(* a strict prefix is the lesser.                                          *)
C20_VersionStrictTotalOrder ==
    fnOut # None =>
        LET r == fnOut[1]
        IN  /\ \A i, j \in 1..3 :
                 /\ r.lt[i][j] \/ r.eq[i][j] \/ r.lt[j][i]
                 /\ ~(r.lt[i][j] /\ r.eq[i][j])
                 /\ ~(r.lt[i][j] /\ r.lt[j][i])
                 /\ ~(r.eq[i][j] /\ r.lt[j][i])
                 /\ r.eq[i][j] = (r.comps[i] = r.comps[j])
                 /\ r.lt[i][j] = NumericallyBefore(r.comps[i], r.comps[j])
                 /\ StrictPrefix(r.comps[i], r.comps[j]) => r.lt[i][j]
            /\ \A i, j, k \in 1..3 :
                 r.lt[i][j] /\ r.lt[j][k] => r.lt[i][k]

(* C20 witness: 2 < 10 < 10.2 have been compared: a numeric comparison     *)
(* that differs from the comparison of the strings, a strict prefix, and a *)
(* chain of three.                                                         *)
C20_Witness ==
    /\ fnOut # None
    /\ fnIn = << <<"2">>, <<"10">>, <<"10", "2">> >>
    /\ fnOut[1].lt[1][2]
    /\ fnOut[1].lt[2][3]
    /\ fnOut[1].lt[1][3]


(* The build property has just been resolved (or has failed to) against    *)
(* the manifest held by the Context.                                       *)
BuildJustRead ==
    /\ lastRead # None
    /\ lastRead[1].setting = "build"
    /\ lastRead[1].before = None
    /\ ctxManifest # None

(* C21: resolving a build for a requested version that is absent from the  *)
(* manifest's versions fails with the unknown-version error, which lists   *)
(* the available versions, the alias "latest" excluded (requesting 9.9.9   *)
(* from {latest -> 6.2.0, 6.2.0} fails listing {6.2.0}).                   *)
C21_UnknownVersionListsAvailable ==
    (/\ BuildJustRead
     /\ ctxArgs.fslversion \notin DOMAIN ctxManifest[1].versions)
        => /\ lastRead[1].raised
           /\ lastRead[1].error # None
           /\ lastRead[1].error[1].kind = MsgNotAvailable
           /\ lastRead[1].error[1].detail =
                 DOMAIN ctxManifest[1].versions \ {"latest"}

(* The entries of a list of builds. *)
Entries(builds) == {builds[i] : i \in 1..Len(builds)}

(* C22: for a requested version present in the manifest, the alias         *)
(* "latest" is first replaced by its target; the build returned is an      *)
(* entry of that version whose platform equals the host platform, carrying *)
(* the resolved version string; when no entry of that version has the      *)
(* platform the read fails with the build-not-available error.             *)
C22_BuildForPlatform ==
    (/\ BuildJustRead
     /\ ctxPlatform # None
     /\ ctxArgs.fslversion \in DOMAIN ctxManifest[1].versions)
        => LET versions == ctxManifest[1].versions
               v == IF ctxArgs.fslversion = "latest"
                    THEN versions["latest"] ELSE ctxArgs.fslversion
               matching == {b \in Entries(versions[v]) :
                               b.platform = ctxPlatform[1]}
           IN  IF matching = {}
               THEN /\ lastRead[1].raised
                    /\ lastRead[1].error # None
                    /\ lastRead[1].error[1].kind = MsgNoBuild
                    /\ ctxBuild = None
               ELSE /\ ~lastRead[1].raised
                    /\ lastRead[1].value # None
                    /\ lastRead[1].value[1] \in matching
                    /\ lastRead[1].value[1].version = v
                    /\ ctxBuild = lastRead[1].value

(* C22 witness: "latest" was requested on macos-64 and the second entry of *)
(* version 6.2.0 was returned, with its version.                           *)
C22_Witness ==
    /\ BuildJustRead
    /\ ctxArgs.fslversion = "latest"
    /\ ctxPlatform = Some("macos-64")
    /\ lastRead[1].value =
          Some([platform |-> "macos-64", environment |-> "u2",
                sha256 |-> "h2", version |-> "6.2.0"])


(* C23: patch_file is idempotent: after two successive calls with the same *)
(* file, marker line, line count and content the file is byte-identical to *)
(* what it was after the first call.                                       *)
C23_PatchFileIdempotent ==
    Len(fnOut) = 2 => fnOut[2] = fnOut[1]

(* The lines of the file as it was, and the first one that is the marker   *)
(* (0: none), verbatim and after stripping.                                *)
LinesBefore == IF fnIn.file = None THEN <<>> ELSE readlines(fnIn.file[1])
MarkerVerbatim == index(LinesBefore, fnIn.searchline)
MarkerStripped == index(StrippedLines(fnIn.file), fnIn.searchline)

InMonitorLoop == monPc \in {"while", "get", "poll"}

(* C26: the wait on the output queue always ends (a line or the timeout),  *)
(* and once the command has exited and both readers have reached           *)
(* end-of-stream the loop of that command ends: with exit status 0         *)
(* monitor_progress goes on, otherwise it raises.                          *)
C26_MonitorLoopTerminates ==
    /\ (monPc = "get") ~> (monPc = "poll")
    /\ \A k \in 1..MaxCmds :
          /\ (InMonitorLoop /\ ExitedAndDrained /\ cmdIndex = k
                /\ exitStatus = 0)
                ~> (Len(rcLog) >= k /\ rcLog[k] = 0 /\ monPc # "raised")
          /\ (InMonitorLoop /\ ExitedAndDrained /\ cmdIndex = k
                /\ exitStatus # 0)
                ~> (Len(rcLog) = k /\ rcLog[k] # 0 /\ monPc = "raised")

(* C26 witness: the loop of a command that wrote nothing has ended: every  *)
(* wait on the queue timed out.                                            *)
C26_Witness ==
    /\ monPc = "for"
    /\ cmdIndex = 1
    /\ rcLog = <<0>>
    /\ written = [s \in Streams |-> 0]
    /\ toWrite = [s \in Streams |-> 0]
    /\ ExitedAndDrained


(* C27: when an expected line total is given, the line counter has been    *)
(* incremented once for every line written to stdout: when a command is    *)
(* reported finished, the counter equals the number of stdout lines of     *)
(* the commands run so far.                                                *)
C27_CounterCountsEveryLine ==
    (/\ TotalGiven
     /\ cmdIndex >= 1
     /\ Len(rcLog) = cmdIndex)
        => nlines = Some(linesBefore + written["stdout"])


(* The lines 1..n in order: what a child that wrote n lines on a stream    *)
(* produced on it.                                                         *)
LinesUpTo(n) == [i \in 1..n |-> i]

StepOrder ==
    <<"start", "settings", "tempdir", "download_env", "download_miniconda",
      "install_miniconda", "install_fsl", "install_env", "finalise",
      "cleanup", "configure">>

StepRank(p) == CHOOSE i \in 1..Len(StepOrder) : StepOrder[i] = p

(* Settings resolution has completed: main is past finalise_settings. *)
SettingsResolved ==
    pc \in {StepOrder[i] : i \in 3..Len(StepOrder)}

(* From the resolution of the settings on, main goes from each step to the *)
(* next one of the list only, or ends, and what a step does to the         *)
(* destination and to the scratch directory is there only once main has    *)
(* reached it.                                                             *)
LaterStepsInOrder ==
    /\ pc \in {"exited"} \cup {StepOrder[i] : i \in 1..Len(StepOrder)}
    /\ (pc # "exited" /\ pc # "start") =>
          \/ pc' = pc
          \/ pc' = "exited"
          \/ pc' = StepOrder[StepRank(pc) + 1]
    /\ pc # "exited" =>
          /\ StepRank(pc) <= StepRank("tempdir") => oldDestdir = None
          /\ StepRank(pc) <= StepRank("download_env") =>
                "environment" \notin downloads
          /\ StepRank(pc) <= StepRank("download_miniconda") =>
                "miniconda" \notin downloads
          /\ StepRank(pc) <= StepRank("install_miniconda") =>
                dest \in {"absent", "prior"}
          /\ StepRank(pc) <= StepRank("install_env") => dest # "fsl"
          /\ StepRank(pc) <= StepRank("finalise") =>
                (~markerWritten /\ dest # "finalised")
          /\ ~configured

C31_OldDestdirDeletedOnSuccess ==
    (/\ pc = "exited"
     /\ exitCode = Some(0)
     /\ configured
     /\ oldDestdir # None)
        => scratch[oldDestdir[1]] = "absent"


(* C32: when the run has ended because the overwrite of an existing        *)
(* destination was declined, the exit status is 1 and the destination is   *)
(* as it was: still the prior installation, not moved aside (no name was   *)
(* generated for it, no entry of the scratch directory holds it), and      *)
(* neither the environment file nor the bootstrap installer has been       *)
(* downloaded, nothing has been finalised or configured.                   *)
C32_DeclineLeavesDestination ==
    failedStep = Some("overwrite_declined") =>
        /\ pc = "exited"
        /\ exitCode = Some(1)
        /\ ~args.overwrite
        /\ dest = "prior"
        /\ oldDestdir = None
        /\ \A i \in ScratchSlots : scratch[i] # "prior"
        /\ downloads \subseteq {"manifest", "installer"}
        /\ ~markerWritten
        /\ ~configured

(* C32 witness: the overwrite was declined in a run that keeps its scratch *)
(* directory, which holds an older moved-aside installation.               *)
C32_Witness ==
    /\ failedStep = Some("overwrite_declined")
    /\ dest = "prior"
    /\ args.workdir
    /\ scratch[0] = "older"


(* C33: whenever overwrite_destdir generates the name of the moved-aside   *)
(* copy, no entry of that name is in the scratch directory just before the *)
(* move, and in a scratch directory that is kept (--workdir) every other   *)
(* entry, an older moved-aside installation included, is after the move    *)
(* what it was before it.                                                  *)
C33_OldNameNeverCollides ==
    [][oldDestdir' # oldDestdir =>
          /\ oldDestdir' # None
          /\ scratch[oldDestdir'[1]] = "absent"
          /\ \A j \in ScratchSlots \ {oldDestdir'[1]} :
                scratch'[j] = (IF args.workdir THEN scratch[j] ELSE "absent")
          /\ scratch'[oldDestdir'[1]] \in {"prior", "absent"}]_vars

(* C33 witness: a reused work directory that already held old_destdir0     *)
(* now holds the destination of this run as old_destdir1.                  *)
C33_Witness ==
    /\ oldDestdir = Some(1)
    /\ scratch[0] = "older"
    /\ scratch[1] = "prior"
    /\ dest = "absent"


(* C34: every line of the file outside the block patch_file replaced, or   *)
(* every line of the file when the block was appended, has after the call  *)
(* the content it had before it.                                           *)
C34_OutsideBlockUnchanged ==
    Len(fnOut) >= 1 =>
        LET old == LinesBefore
            n   == IF MarkerStripped + fnIn.numlines - 1 <= Len(old)
                   THEN fnIn.numlines
                   ELSE Len(old) - MarkerStripped + 1
            new == IF fnOut[1] = None THEN <<>> ELSE fnOut[1][1]
        IN  IF MarkerStripped # 0
            THEN /\ \A i \in 1..(MarkerStripped - 1) : new[i] = old[i]
                 /\ \A i \in (MarkerStripped + n)..Len(old) :
                       new[i - n + Len(fnIn.content)] = old[i]
            ELSE \A i \in 1..Len(old) : new[i] = old[i]


(* C35: in a run with --listversions main never gets past the listing: it  *)
(* never calls finalise_settings, which resolves the destination and asks  *)
(* for the admin password, and no step of it creates, moves or deletes the *)
(* destination or an entry of the scratch directory; unless a download     *)
(* failed, the run ends with the versions printed and exit status 0.       *)
C35_ListVersionsOnly ==
    /\ [](args.listversions =>
            /\ pc \in {"start", "settings", "exited"}
            /\ failedStep \in {None, Some("download_manifest"),
                               Some("self_update")}
            /\ oldDestdir = None
            /\ ~markerWritten
            /\ ~configured
            /\ (pc = "exited" /\ failedStep = None) =>
                  (exitCode = Some(0) /\ printed = <<MsgVersions>>)
            /\ pc # "exited" => printed = <<>>)
    /\ [][args.listversions => UNCHANGED <<dest, scratch>>]_vars

(* C35 witness: the versions were listed by a run that first called        *)
(* self_update, for an existing destination, which is still there.         *)
C35_Witness ==
    /\ args.listversions
    /\ pc = "exited"
    /\ exitCode = Some(0)
    /\ printed = <<MsgVersions>>
    /\ suCall # None
    /\ dest = "prior"


(* The newest of the development releases of the file. *)
NewestDevRelease ==
    CHOOSE d \in DevDates :
        /\ \E i \in 1..Len(fnIn.file) : fnIn.file[i] = d
        /\ \A i \in 1..Len(fnIn.file) : fnIn.file[i] <= d

(* C36: the development releases are listed by date, newest first;         *)
(* --devlatest selects the newest one, and so does the empty response at   *)
(* the prompt (option 1).                                                  *)
C36_NewestDevReleaseFirst ==
    (fnOut # None /\ fnIn.devrelease /\ fnIn.file # <<>>) =>
        /\ \A i \in 1..(Len(fnOut[1].devreleases) - 1) :
              fnOut[1].devreleases[i] > fnOut[1].devreleases[i + 1]
        /\ (fnOut[1].pc = "returned" /\ fnIn.devlatest) =>
              fnOut[1].devmanifest = Some(NewestDevRelease)
        /\ (fnOut[1].pc = "returned" /\ fnOut[1].response = Some("")) =>
              fnOut[1].devmanifest = Some(NewestDevRelease)


(* The wrappers the claim names for an argument: the wrapper of the name   *)
(* after "=" if there is one, else of the target's name; for a _gui        *)
(* wrapper on Linux both Tool and Tool_gui.                                *)
WrappersFor(arg) ==
    IF fnIn.platform = "linux" /\ WrapperOf(arg).gui
    THEN {removesuffix(WrapperOf(arg)), WithGui(removesuffix(WrapperOf(arg)))}
    ELSE {WrapperOf(arg)}

(* C37: after createFSLWrapper and then removeFSLWrapper with the same     *)
(* targets, no wrapper of any of the targets exists, and no wrapper exists *)
(* that was not there before createFSLWrapper ran.                         *)
C37_CreateRemoveRoundTrip ==
    (fnOut # None /\ fnOut[1].pc = "done") =>
        /\ \A i \in 1..Len(fnIn.targets) :
              WrappersFor(fnIn.targets[i]) \cap fnOut[1].wrappers = {}
        /\ fnOut[1].wrappers \subseteq fnIn.wrappers

(* What createFSLWrapper has made, before removeFSLWrapper runs. *)
CreatedWrappers ==
    IF fnOut # None /\ fnOut[1].pc = "remove"
    THEN fnOut[1].wrappers \ fnIn.wrappers ELSE {}

(* C37 witness: on Linux, a renamed _gui wrapper and a plain target, in    *)
(* this order, made three wrappers, Tool and Tool_gui among them.          *)
C37_Witness ==
    /\ fnOut # None
    /\ fnOut[1].pc = "remove"
    /\ fnIn.platform = "linux"
    /\ fnIn.targets = << <<[base |-> "fsl", gui |-> FALSE],
                           [base |-> "Flirt", gui |-> TRUE]>>,
                         <<[base |-> "fsl", gui |-> FALSE]>> >>
    /\ CreatedWrappers = {[base |-> "Flirt", gui |-> FALSE],
                          [base |-> "Flirt", gui |-> TRUE],
                          [base |-> "fsl", gui |-> FALSE]}

=============================================================================
